---- MODULE Spec2Model ----
(***************************************************************************)
(* Model of the data_encoding crate of SilentDB: the value model           *)
(* (types/value.rs, types/document.rs, types/array.rs) and the BSON        *)
(* serializer (ser/bson.rs) that projects it onto a seekable byte writer.  *)
(*                                                                         *)
(* Representation.                                                         *)
(*  - A byte is an integer 0..255.  A byte string (String, field name,     *)
(*    Vec<u8>) is a sequence of cells.  A cell c >= 0 is the byte c; a     *)
(*    cell c < 0 stands for a block of (-c) * 65536 consecutive payload    *)
(*    bytes of a large Vec<u8>, so that frames longer than u32::MAX can    *)
(*    be written down.                                                     *)
(*  - A u64 (writer position, length) is a record [hi, lo] with value      *)
(*    hi * 65536 + lo and 0 <= lo < 65536: the model checker's integers    *)
(*    are 32 bits wide and cannot hold 2^32.                               *)
(*  - A Value is a record [t |-> variant name, v |-> payload].             *)
(*  - A Document is the sequence of its (key, value) entries in the order  *)
(*    HashMap::iter yields them; keys are pairwise distinct.               *)
(***************************************************************************)
EXTENDS Integers, Sequences, FiniteSets, TLC

(* ------------------------------ bounds --------------------------------- *)

\* Largest number of fields of the document under construction.
MaxFields == 2

\* Largest number of serializer calls made on one BsonSerializer.
MaxCalls == 2

(* --------------------------- u64 arithmetic ---------------------------- *)

\* Radix of the two-limb representation of a u64.
Limb == 65536

U64(h, l) == [hi |-> h, lo |-> l]

Zero64 == U64(0, 0)

\* a + b on u64 (no overflow below 2^47, the range of the model).
Add64(a, b) ==
    LET l == a.lo + b.lo
    IN  U64(a.hi + b.hi + (l \div Limb), l % Limb)

\* a - b on u64, for a >= b.
Sub64(a, b) ==
    IF a.lo >= b.lo THEN U64(a.hi - b.hi, a.lo - b.lo)
                    ELSE U64(a.hi - b.hi - 1, a.lo + Limb - b.lo)

\* `x as u32`: the low 32 bits of a u64.
AsU32(x) == U64(x.hi % Limb, x.lo)

\* TRUE iff the u64 x is representable as a u32.
FitsU32(x) == x.hi < Limb

\* The number of bytes a cell stands for.
CellSize(c) == IF c >= 0 THEN U64(0, 1) ELSE U64(-c, 0)

RECURSIVE SizeOf(_)
\* [u8]::len of a byte string.
SizeOf(bytes) ==
    IF bytes = <<>> THEN Zero64
    ELSE Add64(CellSize(Head(bytes)), SizeOf(Tail(bytes)))

(* ------------------------ little-endian encodings ---------------------- *)

\* u32::to_le_bytes of a value below 2^32 held as a u64.
LE32(x) ==
    << x.lo % 256, x.lo \div 256, x.hi % 256, (x.hi \div 256) % 256 >>

\* i32::to_le_bytes (two's complement).
I32LE(n) ==
    IF n >= 0
    THEN << n % 256, (n \div 256) % 256, (n \div 65536) % 256, n \div 16777216 >>
    ELSE LET m == n + 2147483647 + 1
         IN  << m % 256, (m \div 256) % 256, (m \div 65536) % 256,
                (m \div 16777216) + 128 >>

\* i64::to_le_bytes / u64::to_le_bytes of a value in the i32 range: the low
\* word followed by the sign extension.
I64LE(n) ==
    I32LE(n) \o (IF n >= 0 THEN <<0, 0, 0, 0>> ELSE <<255, 255, 255, 255>>)

RECURSIVE Reverse(_)
Reverse(s) == IF s = <<>> THEN <<>> ELSE Reverse(Tail(s)) \o <<Head(s)>>

\* f64::to_le_bytes: a double is held as the 8 bytes of its IEEE-754 bit
\* pattern, most significant first.
F64LE(bits) == Reverse(bits)

\* The u32 a 4-byte little-endian field denotes.
FromLE32(b) == U64(b[3] + 256 * b[4], b[1] + 256 * b[2])

(* ------------------------------ the writer ----------------------------- *)

\* The writer is a std::io::Cursor<Vec<u8>>: buf is the vector, pos the
\* cursor.  A serializer state is [buf, pos, stack, res]: the writer, the
\* document_positions stack (top last) and the Result of the call under way;
\* every step is skipped once res is an Err (the `?` operator) or a panic.

RECURSIVE CellsBefore(_, _, _, _)
\* The number of cells of buf that lie before byte position p, given that
\* the first i cells hold acc bytes.
CellsBefore(buf, p, i, acc) ==
    IF acc = p \/ i = Len(buf) THEN i
    ELSE CellsBefore(buf, p, i + 1, Add64(acc, CellSize(buf[i + 1])))

\* The index of the cell at byte position p: p itself while every cell
\* before it holds one byte.
CellIndex(buf, p) ==
    IF p.hi = 0 /\ p.lo <= Len(buf) /\ \A k \in 1..p.lo : buf[k] >= 0
    THEN p.lo
    ELSE CellsBefore(buf, p, 0, Zero64)

\* Write::write_all on the cursor: overwrite from pos on, growing the vector.
write_all(s, bytes) ==
    IF s.res # "Ok" THEN s
    ELSE LET i == CellIndex(s.buf, s.pos)
         IN  [s EXCEPT
                !.buf = SubSeq(s.buf, 1, i) \o bytes
                          \o SubSeq(s.buf, i + Len(bytes) + 1, Len(s.buf)),
                !.pos = Add64(s.pos, SizeOf(bytes))]

write_u8(s, b) == write_all(s, <<b>>)

\* Seek::seek(SeekFrom::Start(p)).
seek(s, p) == IF s.res # "Ok" THEN s ELSE [s EXCEPT !.pos = p]

\* BsonSerializer::new over an empty cursor.
BsonSerializer_new == [buf |-> <<>>, pos |-> Zero64, stack |-> <<>>, res |-> "Ok"]

\* BsonSerializer::current_position.
current_position(s) == s.pos

\* No position is recorded.
push_position_skipped(s) == s

\* Vec::push on document_positions.
push_position(s) ==
    IF s.res # "Ok" THEN s
    ELSE [s EXCEPT !.stack = Append(s.stack, current_position(s))]

\* BsonSerializer::write_document_length: pop the innermost open position
\* (a panic on an empty stack), write current - position there as a u32 by
\* an `as` cast, and seek back to where the writer was.
write_document_length(s) ==
    IF s.res # "Ok" THEN s
    ELSE IF s.stack = <<>> THEN [s EXCEPT !.res = "Panic"]
    ELSE LET current_pos == current_position(s)
             document_position == s.stack[Len(s.stack)]
             length == Sub64(current_pos, document_position)
             popped == [s EXCEPT !.stack = SubSeq(s.stack, 1, Len(s.stack) - 1)]
         IN  seek(write_all(seek(popped, document_position),
                            LE32(AsU32(length))),
                  current_pos)

(* ------------------------- the BSON serializer ------------------------- *)

serialize_f64(s, value) == write_all(write_u8(s, 1), F64LE(value))

\* serialize_string with the terminator left out of the length.
serialize_string_len_only(s, value) ==
    write_u8(write_all(write_all(write_u8(s, 2), LE32(AsU32(SizeOf(value)))),
                       value),
             0)

\* `value.len() as i32 + 1` written little-endian: the low 32 bits of
\* len + 1 (strings of the model are far shorter than i32::MAX, where the
\* addition would overflow).
serialize_string(s, value) ==
    write_u8(write_all(write_all(write_u8(s, 2),
                                 LE32(AsU32(Add64(SizeOf(value), U64(0, 1))))),
                       value),
             0)

serialize_binary(s, value) ==
    write_all(write_u8(write_all(write_u8(s, 5), LE32(AsU32(SizeOf(value)))),
                       0),
              value)

serialize_undefined(s) == write_u8(s, 6)

serialize_object_id(s, value) == write_all(write_u8(s, 7), value)

serialize_boolean(s, value) ==
    write_u8(write_u8(s, 8), IF value THEN 1 ELSE 0)

serialize_utc_datetime(s, value) == write_all(write_u8(s, 9), I64LE(value))

serialize_null(s) == write_u8(s, 10)

serialize_regex(s, pattern, options) ==
    write_u8(write_all(write_u8(write_all(write_u8(s, 11), pattern), 0),
                       options),
             0)

\* The error is returned after a type tag has been written.
Deprecated_after_tag(s) ==
    IF s.res # "Ok" THEN s ELSE [write_u8(s, 14) EXCEPT !.res = "Deprecated"]

\* Err(SerializeError::Deprecated(..)) as the whole body of a method.
Deprecated(s) == IF s.res # "Ok" THEN s ELSE [s EXCEPT !.res = "Deprecated"]

serialize_db_pointer(s, collection, id) == Deprecated(s)

serialize_javascript_code(s, code) ==
    write_u8(write_all(write_u8(s, 13), code), 0)

serialize_symbol(s, symbol) == Deprecated(s)

serialize_javascript_code_with_scope(s, code, scope) == Deprecated(s)

serialize_i32(s, value) == write_all(write_u8(s, 16), I32LE(value))

serialize_timestamp(s, value) == write_all(write_u8(s, 17), I64LE(value))

serialize_i64(s, value) == write_all(write_u8(s, 18), I64LE(value))

serialize_u64(s, value) == write_all(write_u8(s, 19), I64LE(value))

serialize_min_key(s) == write_u8(s, 255)

serialize_max_key(s) == write_u8(s, 127)

\* The position is recorded and the placeholder written, with no tag.
start_document_untagged(s) == write_all(push_position(s), LE32(Zero64))

start_document(s) ==
    write_all(push_position(write_u8(s, 3)), LE32(Zero64))

\* The document is closed and reported encoded whatever a field returned.
end_document_regardless(s) ==
    write_document_length([s EXCEPT !.res = "Ok"])

end_document(s) == write_document_length(s)

serialize_field_name(s, name) == write_u8(write_all(s, name), 0)

RECURSIVE to_string_one_based(_)
\* to_string applied to the one-based index.
to_string_one_based(n) ==
    IF n + 1 < 10 THEN << 48 + n + 1 >>
    ELSE IF n + 1 = 10 THEN << 49, 48 >>
    ELSE to_string_one_based((n + 1) \div 10 - 1) \o << 48 + ((n + 1) % 10) >>

RECURSIVE to_string(_)
\* usize::to_string: the decimal digits of n as ASCII bytes.
to_string(n) ==
    IF n < 10 THEN << 48 + n >>
    ELSE to_string(n \div 10) \o << 48 + (n % 10) >>

RECURSIVE serialize(_, _), serialize_document(_, _), serialize_array(_, _),
          DocumentLoop(_, _, _), ArrayLoop(_, _, _)

\* Value::serialize: the dispatch on the variant.
serialize(s, value) ==
    CASE value.t = "Double"         -> serialize_f64(s, value.v)
      [] value.t = "String"         -> serialize_string(s, value.v)
      [] value.t = "Document"       -> serialize_document(s, value.v)
      [] value.t = "Array"          -> serialize_array(s, value.v)
      [] value.t = "Binary"         -> serialize_binary(s, value.v)
      [] value.t = "ObjectId"       -> serialize_object_id(s, value.v)
      [] value.t = "Boolean"        -> serialize_boolean(s, value.v)
      [] value.t = "UTCDateTime"    -> serialize_timestamp(s, value.v)
      [] value.t = "Null"           -> serialize_null(s)
      [] value.t = "RegularExpression" ->
             serialize_regex(s, value.v.pattern, value.v.options)
      [] value.t = "JavaScriptCode" -> serialize_javascript_code(s, value.v)
      [] value.t = "JavaScriptCodeWithScope" ->
             serialize_javascript_code_with_scope(s, value.v.code, value.v.scope)
      [] value.t = "Int32"          -> serialize_i32(s, value.v)
      [] value.t = "Timestamp"      -> serialize_timestamp(s, value.v)
      [] value.t = "Int64"          -> serialize_i64(s, value.v)
      [] value.t = "UInt64"         -> serialize_u64(s, value.v)
      [] value.t = "MinKey"         -> serialize_min_key(s)
      [] value.t = "MaxKey"         -> serialize_max_key(s)

\* The loop of serialize_document over value.iter(), from entry i on.
DocumentLoop(s, value, i) ==
    IF i > Len(value) \/ s.res # "Ok" THEN s
    ELSE DocumentLoop(serialize(serialize_field_name(s, value[i][1]),
                                value[i][2]),
                      value, i + 1)

serialize_document(s, value) ==
    end_document(
        DocumentLoop(write_all(push_position(write_u8(s, 3)), LE32(Zero64)),
                     value, 1))

\* The loop of serialize_array over value.iter().enumerate(), from the
\* element of index i - 1 on.
ArrayLoop(s, value, i) ==
    IF i > Len(value) \/ s.res # "Ok" THEN s
    ELSE ArrayLoop(serialize(serialize_field_name(s, to_string(i - 1)),
                             value[i]),
                   value, i + 1)

serialize_array(s, value) ==
    end_document(
        ArrayLoop(write_all(push_position(write_u8(s, 4)), LE32(Zero64)),
                  value, 1))

RECURSIVE visit_fields(_, _, _)
\* A caller's loop over value.iter(), from entry i on: serialize_field_name,
\* then the serializer method of the field's variant, each followed by `?`.
visit_fields(s, value, i) ==
    IF i > Len(value) \/ s.res # "Ok" THEN s
    ELSE visit_fields(serialize(serialize_field_name(s, value[i][1]),
                                value[i][2]),
                      value, i + 1)

\* The document helpers of the trait driven by a caller: start_document,
\* the fields, end_document.
visit_document(s, value) ==
    end_document(visit_fields(start_document(s), value, 1))

(* ------------------------------ the values ----------------------------- *)

Double(bits)       == [t |-> "Double", v |-> bits]
String(bytes)      == [t |-> "String", v |-> bytes]
DocumentValue(d)   == [t |-> "Document", v |-> d]
ArrayValue(a)      == [t |-> "Array", v |-> a]
Binary(bytes)      == [t |-> "Binary", v |-> bytes]
ObjectIdValue(id)  == [t |-> "ObjectId", v |-> id]
Boolean(b)         == [t |-> "Boolean", v |-> b]
UTCDateTime(n)     == [t |-> "UTCDateTime", v |-> n]
Null               == [t |-> "Null", v |-> 0]
RegularExpression(p, o) ==
    [t |-> "RegularExpression", v |-> [pattern |-> p, options |-> o]]
JavaScriptCode(c)  == [t |-> "JavaScriptCode", v |-> c]
JavaScriptCodeWithScope(c, d) ==
    [t |-> "JavaScriptCodeWithScope", v |-> [code |-> c, scope |-> d]]
Int32(n)           == [t |-> "Int32", v |-> n]
Timestamp(n)       == [t |-> "Timestamp", v |-> n]
Int64(n)           == [t |-> "Int64", v |-> n]
UInt64(n)          == [t |-> "UInt64", v |-> n]
MinKey             == [t |-> "MinKey", v |-> 0]
MaxKey             == [t |-> "MaxKey", v |-> 0]

\* The variants of Value the data model calls deprecated.
DeprecatedVariants == { "JavaScriptCodeWithScope" }

(* ------------------------------ the inputs ----------------------------- *)

\* Field names: "a", "x", "y" and a name with an embedded NUL, "a\0b".
NameA == << 97 >>
NameX == << 120 >>
NameY == << 121 >>
NameNul == << 97, 0, 98 >>

Names == << NameA, NameX, NameNul >>

\* {"y": true}
DocY == << << NameY, Boolean(TRUE) >> >>

\* A Vec<u8> of 65536 * 65536 = 2^32 bytes.
HugeBytes == << -65536 >>

\* 1.0, NaN
OneBits == << 63, 240, 0, 0, 0, 0, 0, 0 >>
NaNBits == << 127, 248, 0, 0, 0, 0, 0, 0 >>

AnObjectId == << 1, 2, 3, 4, 5, 6, 7, 8, 9, 10, 11, 12 >>

\* The values a field of the document under construction may take.
FieldValues ==
    << Int32(1),
       DocumentValue(DocY) >>

\* The values handed to Value::serialize directly: every variant, and
\* composites of nesting depth up to three.
Values ==
    FieldValues \o
    << UTCDateTime(1),
       JavaScriptCodeWithScope(<< 102 >>, <<>>),
       Double(OneBits), Double(NaNBits),
       String(<<>>), String(<< 104, 105 >>),
       DocumentValue(<<>>),
       DocumentValue(<< << NameX, DocumentValue(DocY) >> >>),
       DocumentValue(<< << NameA, JavaScriptCodeWithScope(<<>>, <<>>) >>,
                        << NameX, Null >> >>),
       DocumentValue(<< << NameA, Binary(HugeBytes) >> >>),
       DocumentValue(
           << << NameA, Int32(1) >>,
              << NameX,
                 ArrayValue(
                     << Null,
                        DocumentValue(
                            << << NameA,
                                  JavaScriptCodeWithScope(<<>>, <<>>) >>,
                               << NameX, Boolean(TRUE) >> >>),
                        Int32(20) >>) >>,
              << NameY, Null >> >>),
       ArrayValue(<<>>),
       ArrayValue(<< Int32(10), Int32(20) >>),
       ArrayValue(<< Null, Null, Null, Null, Null, Null,
                     Null, Null, Null, Null, Boolean(TRUE) >>),
       Binary(<< 7 >>),
       ObjectIdValue(AnObjectId),
       Boolean(FALSE), Boolean(TRUE),
       Null,
       RegularExpression(<< 97 >>, << 105 >>),
       JavaScriptCode(<< 102 >>),
       Int32(-2),
       Timestamp(1), Timestamp(-1),
       Int64(-1),
       UInt64(1),
       MinKey, MaxKey >>

(* ---------------------------- the documents ---------------------------- *)

\* The keys of a document, in iteration order.
Keys(d) == [i \in 1..Len(d) |-> d[i][1]]

\* Document::contains_key
contains_key(d, key) == \E i \in 1..Len(d) : d[i][1] = key

\* No entry is taken out.
Without_kept(d, key) == d

\* The entries of d after HashMap::remove(key): the others keep their order.
RECURSIVE Without(_, _)
Without(d, key) ==
    IF d = <<>> THEN <<>>
    ELSE IF Head(d)[1] = key THEN Without(Tail(d), key)
    ELSE << Head(d) >> \o Without(Tail(d), key)

\* The orders in which a HashMap of n entries may iterate: the
\* hasher is seeded at random and an insertion may rehash the table, so
\* every arrangement of the entries is possible.
IterationOrders(n) ==
    { q \in [1..n -> 1..n] : \A i, j \in 1..n : q[i] = q[j] => i = j }

\* The entries of d arranged by the order p.
Arranged(d, p) == [i \in 1..Len(d) |-> d[p[i]]]

\* Document::get: Some(value) is << value >>, None is << >>.
get(d, key) ==
    IF contains_key(d, key)
    THEN << d[CHOOSE i \in 1..Len(d) : d[i][1] = key][2] >>
    ELSE << >>

\* Document::len
len(d) == Len(d)

\* Document::is_empty
is_empty(d) == len(d) = 0

\* HashMap::insert that keeps the value of a key already present.
Inserted_keep_first(d, key, value) ==
    IF contains_key(d, key) THEN d ELSE Append(d, << key, value >>)

\* The entries of d after HashMap::insert(key, value), in some order.
Inserted(d, key, value) ==
    IF contains_key(d, key)
    THEN [i \in 1..Len(d) |-> IF d[i][1] = key THEN << key, value >> ELSE d[i]]
    ELSE Append(d, << key, value >>)

(* ---------------------------- the JSON serializer ---------------------- *)

\* JsonSerializer::new(pretty): the output is a String, kept as its UTF-8
\* bytes; res is the Result of the last call.  indent_level is a usize: -1
\* stands for usize::MAX, which it reaches by wrapping around when the
\* build has no overflow checks; overflow_checks tells which build runs.
JsonSerializer_new(pretty) ==
    [output |-> << >>, pretty |-> pretty, indent_level |-> 0, res |-> "Ok",
     overflow_checks |-> TRUE]

(* ---------------------------- the state machine ------------------------ *)

VARIABLES
    doc,        \* the Document under construction, in iteration order
    inserted,   \* its keys in the order they were first inserted
    distinct,   \* TRUE iff doc was built, since it was last empty, by
                \* inserts of distinct keys only
    ser,        \* the BsonSerializer: writer, document_positions, last Result
    json,       \* the JsonSerializer: output, pretty, indent_level, last Result
    calls,      \* the number of calls made on the serializer in use
    last        \* the last operation: [op, arg, pre, ret], with pre the
                \* serializer (a call on ser or json) or the document (an
                \* operation on doc) before it and ret what the operation
                \* returned (a document operation, a function of the types)

vars == << doc, inserted, distinct, ser, json, calls, last >>

NoCall ==
    [op |-> "none", arg |-> <<>>, pre |-> BsonSerializer_new, ret |-> <<>>]

Init ==
    /\ doc = <<>>
    /\ inserted = <<>>
    /\ distinct = TRUE
    /\ ser = BsonSerializer_new
    /\ json = JsonSerializer_new(FALSE)
    /\ calls = 0
    /\ last = NoCall

\* The document is built before it is encoded: the serializer keeps no
\* reference to it, so its later changes cannot reach the writer.
Building == calls = 0

\* Document::insert(key, value)
Insert(key, value) ==
    /\ Building
    /\ contains_key(doc, key) \/ Len(doc) < MaxFields
    /\ \E p \in IterationOrders(Len(Inserted(doc, key, value))) :
           doc' = Arranged(Inserted(doc, key, value), p)
    /\ inserted' = IF contains_key(doc, key) THEN inserted
                   ELSE Append(inserted, key)
    /\ distinct' = (distinct /\ ~contains_key(doc, key))
    /\ last' = [op |-> "insert", arg |-> [key |-> key, value |-> value],
                pre |-> doc, ret |-> get(doc, key)]
    /\ UNCHANGED << ser, json, calls >>

\* Document::remove(key)
Remove(key) ==
    /\ Building
    /\ doc' = Without(doc, key)
    /\ inserted' = SelectSeq(inserted, LAMBDA k : k # key)
    /\ distinct' = (Without(doc, key) = << >>)
    /\ last' = [op |-> "remove", arg |-> [key |-> key],
                pre |-> doc, ret |-> get(doc, key)]
    /\ UNCHANGED << ser, json, calls >>

\* Document::clear
Clear ==
    /\ Building
    /\ doc' = <<>>
    /\ inserted' = <<>>
    /\ distinct' = TRUE
    /\ last' = [op |-> "clear", arg |-> <<>>, pre |-> doc, ret |-> <<>>]
    /\ UNCHANGED << ser, json, calls >>

\* BsonSerializer::new(Cursor::new(Vec::new()))
NewSerializer ==
    /\ ser' = BsonSerializer_new
    /\ calls' = 0
    /\ last' = NoCall
    /\ UNCHANGED << doc, inserted, distinct, json >>

\* The serializer as a call finds it: usable unless a call panicked, with
\* the budget of calls not yet used up, and created after the document was
\* last changed (the document is built, then a serializer is made for it).
Callable ==
    /\ ser.res # "Panic"
    /\ calls < MaxCalls
    /\ last.op \notin { "insert", "remove", "clear" }

Entry == [ser EXCEPT !.res = "Ok"]

Called(op, arg, post) ==
    /\ Callable
    /\ ser' = post
    /\ calls' = calls + 1
    /\ last' = [op |-> op, arg |-> arg, pre |-> ser, ret |-> <<>>]
    /\ UNCHANGED << doc, inserted, distinct, json >>

\* A call that does not take the document: it neither reads nor changes
\* doc, so it is explored with the empty document only.
Direct(op, arg, post) ==
    /\ doc = << >>
    /\ Called(op, arg, post)

\* serializer.serialize_document(&doc)
SerializeDocument ==
    Called("serialize_document", doc, serialize_document(Entry, doc))

\* value.serialize(&mut serializer)
Serialize(value) == Direct("serialize", value, serialize(Entry, value))

SerializeUndefined ==
    Direct("serialize_undefined", <<>>, serialize_undefined(Entry))

SerializeDbPointer ==
    Direct("serialize_db_pointer", <<>>,
           serialize_db_pointer(Entry, NameA, AnObjectId))

SerializeSymbol ==
    Direct("serialize_symbol", <<>>, serialize_symbol(Entry, NameA))

SerializeUtcDatetime(value) ==
    Direct("serialize_utc_datetime", value,
           serialize_utc_datetime(Entry, value))

StartDocument == Direct("start_document", <<>>, start_document(Entry))

EndDocument == Direct("end_document", <<>>, end_document(Entry))

SerializeFieldName(name) ==
    Direct("serialize_field_name", name, serialize_field_name(Entry, name))

\* start_document, the fields of a document one by one, end_document.
VisitDocument(value) ==
    /\ value.t = "Document"
    /\ Direct("visit_document", value.v, visit_document(Entry, value.v))

(* ------------------------- what the claims speak of -------------------- *)

\* The last call encoded a document: serialize_document on the document
\* under construction, or Value::serialize on a Value::Document.
IsDocCall ==
    \/ last.op = "serialize_document"
    \/ last.op = "serialize" /\ last.arg.t = "Document"

\* The document that call was given.
EncodedDoc ==
    IF last.op = "serialize_document" THEN last.arg ELSE last.arg.v

\* The last call encoded a document with a fresh serializer and returned Ok.
FreshDocOk ==
    IsDocCall /\ last.pre = BsonSerializer_new /\ ser.res = "Ok"

\* The bytes the last call left in the writer beyond those it found there.
Output == SubSeq(ser.buf, Len(last.pre.buf) + 1, Len(ser.buf))

\* f is a self-framed document: at least 5 bytes, the first four the
\* little-endian u32 of its byte count, the last one 0x00.
SelfFramed(f) ==
    /\ Len(f) >= 5
    /\ \A i \in 1..4 : f[i] >= 0
    /\ FitsU32(SizeOf(f))
    /\ FromLE32(SubSeq(f, 1, 4)) = SizeOf(f)
    /\ f[Len(f)] = 0

\* seq contains part as a contiguous run.
Contains(seq, part) ==
    \E i \in 0..(Len(seq) - Len(part)) :
        SubSeq(seq, i + 1, i + Len(part)) = part

\* The type tag the data-model table assigns to each variant.
TableTag(variant) ==
    CASE variant = "Double"         -> 1
      [] variant = "String"         -> 2
      [] variant = "Document"       -> 3
      [] variant = "Array"          -> 4
      [] variant = "Binary"         -> 5
      [] variant = "ObjectId"       -> 7
      [] variant = "Boolean"        -> 8
      [] variant = "UTCDateTime"    -> 9
      [] variant = "Null"           -> 10
      [] variant = "RegularExpression" -> 11
      [] variant = "JavaScriptCode" -> 13
      [] variant = "JavaScriptCodeWithScope" -> 15
      [] variant = "Int32"          -> 16
      [] variant = "Timestamp"      -> 17
      [] variant = "Int64"          -> 18
      [] variant = "UInt64"         -> 19
      [] variant = "MinKey"         -> 255
      [] variant = "MaxKey"         -> 127

(* ------------------------------- the claims ---------------------------- *)

\* C1: the bytes BsonSerializer produces for a document form a self-framed
\* document: at least 5 bytes, the first four the little-endian u32 of the
\* frame's byte count, the last byte 0x00.  The frame is taken to be the
\* output, or the output after the type tag serialize_document writes first.
C1_SelfFramed ==
    FreshDocOk => SelfFramed(Output) \/ SelfFramed(Tail(Output))

\* C2: encoding the empty document with a fresh serializer over an empty
\* writer yields exactly 05 00 00 00 00.
C2_EmptyDocument ==
    FreshDocOk /\ EncodedDoc = <<>> => ser.buf = << 5, 0, 0, 0, 0 >>

\* C3: every field goes on the wire as type tag, then name and NUL, then
\* payload: a document of one field (k, v) holds, after its length prefix,
\* the tag Value::serialize emits for v, then k, 0x00, then the rest of what
\* Value::serialize emits for v; and {"a": Int32(1)} encodes to
\* 0E 00 00 00 10 61 00 01 00 00 00 00.
C3_TagNamePayload ==
    /\ FreshDocOk /\ Len(EncodedDoc) = 1 =>
         LET k == EncodedDoc[1][1]
             e == serialize(BsonSerializer_new, EncodedDoc[1][2]).buf
         IN  Contains(Output, << Head(e) >> \o k \o << 0 >> \o Tail(e))
    /\ FreshDocOk /\ EncodedDoc = << << NameA, Int32(1) >> >> =>
         ser.buf = << 14, 0, 0, 0, 16, 97, 0, 1, 0, 0, 0, 0 >>

\* C4: a nested document's length prefix counts the inner frame only and
\* the outer prefix counts the whole inner frame: {"x": {"y": true}} has
\* outer length 20 and its inner frame is 09 00 00 00 08 79 00 01 00.
C4_NestedFrames ==
    FreshDocOk /\ EncodedDoc = << << NameX, DocumentValue(DocY) >> >> =>
        /\ \/ FromLE32(SubSeq(Output, 1, 4)) = U64(0, 20)
           \/ FromLE32(SubSeq(Output, 2, 5)) = U64(0, 20)
        /\ Contains(Output, << 9, 0, 0, 0, 8, 121, 0, 1, 0 >>)

\* C5: after any sequence of Document::insert calls with distinct keys,
\* Document::iter yields the keys in the order they were inserted, and so
\* the encoder emits the fields in that order.
C5_InsertionOrder ==
    distinct => Keys(doc) = inserted

\* C6: each deprecated serializer method (serialize_undefined,
\* serialize_db_pointer, serialize_symbol,
\* serialize_javascript_code_with_scope) returns Deprecated for every input.
C6_DeprecatedFails ==
    \/ last.op \in { "serialize_undefined", "serialize_db_pointer",
                     "serialize_symbol" }
    \/ last.op = "serialize" /\ last.arg.t = "JavaScriptCodeWithScope"
    => ser.res = "Deprecated"

\* C7: Value::serialize emits tag 0x09 and the 8 little-endian bytes of x for
\* UTCDateTime(x), and tag 0x11 and the 8 little-endian bytes of x for
\* Timestamp(x).
C7_DateTimeTags ==
    /\ last.op = "serialize" /\ last.arg.t = "UTCDateTime" =>
         Output = << 9 >> \o I64LE(last.arg.v)
    /\ last.op = "serialize" /\ last.arg.t = "Timestamp" =>
         Output = << 17 >> \o I64LE(last.arg.v)

\* The type tag Value::serialize emits for value.
EmittedTag(value) == Head(serialize(BsonSerializer_new, value).buf)

\* C8: the mapping from variant to emitted type tag is injective over the
\* non-deprecated variants, and each variant gets the tag the data-model
\* table assigns to it.
C8_TagInjective ==
    last.op = "serialize" /\ last.arg.t \notin DeprecatedVariants =>
        /\ Head(Output) = TableTag(last.arg.t)
        /\ \A i \in 1..Len(Values) :
             Values[i].t \notin DeprecatedVariants
               /\ Values[i].t # last.arg.t
             => EmittedTag(Values[i]) # Head(Output)

\* The byte count of the frame the last call wrote: from the first byte of
\* its length prefix, which follows the type tag, to the end of the output.
FrameLength == Sub64(ser.pos, Add64(last.pre.pos, U64(0, 1)))

\* C9: a document whose byte length does not fit in a u32 is not encoded (the
\* call fails); the length prefix written never differs from the true frame
\* length.
C9_LengthFitsU32 ==
    IsDocCall /\ ser.res = "Ok" =>
        /\ FitsU32(FrameLength)
        /\ FromLE32(SubSeq(Output, 2, 5)) = FrameLength

\* name contains a NUL byte.
HasNul(name) == \E i \in 1..Len(name) : name[i] = 0

\* C10: encoding a document that has a field name with an embedded NUL fails
\* with InvalidValue.
C10_NulInFieldName ==
    IsDocCall /\ (\E i \in 1..Len(EncodedDoc) : HasNul(EncodedDoc[i][1]))
        => ser.res = "InvalidValue"

\* The decimal numeral of an index below 100, as ASCII bytes.
DecimalName(i) ==
    IF i < 10 THEN << 48 + i >> ELSE << 48 + (i \div 10), 48 + (i % 10) >>

RECURSIVE ArrayFields(_, _)
\* The fields of the array a from its i-th element on: the decimal name of
\* the element's index, 0x00, and what Value::serialize emits for the element.
ArrayFields(a, i) ==
    IF i > Len(a) THEN <<>>
    ELSE DecimalName(i - 1) \o << 0 >>
           \o serialize(BsonSerializer_new, a[i]).buf
           \o ArrayFields(a, i + 1)

\* The last call was Value::serialize on a value of the variant, made on a
\* fresh serializer, and it returned Ok.
FreshOk(variant) ==
    /\ last.op = "serialize"
    /\ last.arg.t = variant
    /\ last.pre = BsonSerializer_new
    /\ ser.res = "Ok"

C12_StringPayload ==
    last.op = "serialize" /\ last.arg.t = "String" =>
        /\ ser.res = "Ok"
        /\ Output = << 2 >> \o I32LE(Len(last.arg.v) + 1)
                      \o last.arg.v \o << 0 >>
        /\ FromLE32(SubSeq(Output, 2, 5)).lo >= 1
        /\ last.arg.v = <<>> => Tail(Output) = << 1, 0, 0, 0, 0 >>

\* The empty string and a string of two bytes were encoded.
C12_Witness ==
    /\ FreshOk("String")
    /\ last.arg.v = <<>>
    /\ Output = << 2, 1, 0, 0, 0, 0 >>

\* C13: serialize_javascript_code emits tag 0x0D followed by the payload
\* shape of String: an i32 little-endian length, the code bytes, a NUL.
C13_CodeLengthPrefixed ==
    last.op = "serialize" /\ last.arg.t = "JavaScriptCode" =>
        /\ ser.res = "Ok"
        /\ Output = << 13 >> \o I32LE(Len(last.arg.v) + 1)
                      \o last.arg.v \o << 0 >>

(* ----------------------- the BSON decoder (design) --------------------- *)

\* The decoder is the length-driven parser of the design document: it reads
\* the frame length, then type tag, NUL-terminated name and payload of each
\* field up to the terminator, checking every read against the frame's end.
\* Indices are one-based; end is the index just past the frame.  A result is
\* [ok, v, pos, err]: the value read and the index after it, or the failure.

Fail(err) == [ok |-> FALSE, v |-> <<>>, pos |-> 0, err |-> err]

Good(v, pos) == [ok |-> TRUE, v |-> v, pos |-> pos, err |-> "none"]

\* The bytes b[pos .. pos + n - 1] are bytes of the frame that ends at end.
Within(b, pos, n, end) ==
    /\ n >= 0
    /\ pos + n <= end
    /\ \A i \in pos..(pos + n - 1) : b[i] >= 0

\* The signed integer four little-endian bytes denote.
FromI32LE(b) ==
    IF b[4] < 128
    THEN b[1] + 256 * b[2] + 65536 * b[3] + 16777216 * b[4]
    ELSE (b[1] + 256 * b[2] + 65536 * b[3] + 16777216 * (b[4] - 128))
           - 2147483647 - 1

\* The eight little-endian bytes denote an integer of the i32 range.
SmallI64(b) ==
    \/ b[4] < 128 /\ SubSeq(b, 5, 8) = << 0, 0, 0, 0 >>
    \/ b[4] >= 128 /\ SubSeq(b, 5, 8) = << 255, 255, 255, 255 >>

\* The index of the first 0x00 in b[pos .. end - 1], or 0 if there is none.
NulFrom(b, pos, end) ==
    IF \E i \in pos..(end - 1) : b[i] = 0
    THEN CHOOSE i \in pos..(end - 1) :
             b[i] = 0 /\ \A j \in pos..(i - 1) : b[j] # 0
    ELSE 0

\* bytes is well-formed UTF-8 (of code points below U+0800).
RECURSIVE ValidUtf8(_)
ValidUtf8(bytes) ==
    IF bytes = <<>> THEN TRUE
    ELSE IF bytes[1] >= 0 /\ bytes[1] < 128 THEN ValidUtf8(Tail(bytes))
    ELSE /\ Len(bytes) >= 2
         /\ bytes[1] >= 194 /\ bytes[1] <= 223
         /\ bytes[2] >= 128 /\ bytes[2] <= 191
         /\ ValidUtf8(Tail(Tail(bytes)))

\* A length-prefixed string at pos: i32 length >= 1, UTF-8 bytes, 0x00.
DecodeString(b, pos, end) ==
    IF ~Within(b, pos, 4, end) THEN Fail("InvalidDocument")
    ELSE LET n == FromI32LE(SubSeq(b, pos, pos + 3))
         IN  IF n < 1 \/ ~Within(b, pos + 4, n, end)
             THEN Fail("InvalidDocument")
             ELSE IF b[pos + 4 + n - 1] # 0 THEN Fail("InvalidDocument")
             ELSE IF ~ValidUtf8(SubSeq(b, pos + 4, pos + 4 + n - 2))
             THEN Fail("Utf8")
             ELSE Good(SubSeq(b, pos + 4, pos + 4 + n - 2), pos + 4 + n)

\* A NUL-terminated string at pos.
DecodeCString(b, pos, end) ==
    LET z == NulFrom(b, pos, end)
    IN  IF z = 0 THEN Fail("InvalidDocument")
        ELSE IF ~ValidUtf8(SubSeq(b, pos, z - 1)) THEN Fail("Utf8")
        ELSE Good(SubSeq(b, pos, z - 1), z + 1)

\* An 8-byte integer at pos, as a value of the given variant.
DecodeI64(b, pos, end, variant) ==
    IF ~Within(b, pos, 8, end) THEN Fail("InvalidDocument")
    ELSE IF ~SmallI64(SubSeq(b, pos, pos + 7)) THEN Fail("NotSupported")
    ELSE Good([t |-> variant, v |-> FromI32LE(SubSeq(b, pos, pos + 3))],
              pos + 8)

\* The keys of d are "0", "1", ... in order.
DenseKeys(d) == \A i \in 1..Len(d) : d[i][1] = to_string(i - 1)

RECURSIVE DecodeDocument(_, _), DecodeElements(_, _, _, _),
          DecodeValue(_, _, _, _)

\* The payload of a field of type tag, from pos on.
DecodeValue(b, tag, pos, end) ==
    CASE tag = 1 ->
           IF Within(b, pos, 8, end)
           THEN Good(Double(Reverse(SubSeq(b, pos, pos + 7))), pos + 8)
           ELSE Fail("InvalidDocument")
      [] tag = 2 ->
           LET r == DecodeString(b, pos, end)
           IN  IF r.ok THEN Good(String(r.v), r.pos) ELSE r
      [] tag = 3 ->
           LET r == DecodeDocument(b, pos)
           IN  IF ~r.ok THEN r
               ELSE IF r.pos > end THEN Fail("InvalidDocument")
               ELSE Good(DocumentValue(r.v), r.pos)
      [] tag = 4 ->
           LET r == DecodeDocument(b, pos)
           IN  IF ~r.ok THEN r
               ELSE IF r.pos > end THEN Fail("InvalidDocument")
               ELSE IF ~DenseKeys(r.v) THEN Fail("InvalidValue")
               ELSE Good(ArrayValue([i \in 1..Len(r.v) |-> r.v[i][2]]), r.pos)
      [] tag = 5 ->
           IF ~Within(b, pos, 5, end) THEN Fail("InvalidDocument")
           ELSE LET n == FromI32LE(SubSeq(b, pos, pos + 3))
                IN  IF ~Within(b, pos + 5, n, end) THEN Fail("InvalidDocument")
                    ELSE Good(Binary(SubSeq(b, pos + 5, pos + 4 + n)),
                              pos + 5 + n)
      [] tag = 7 ->
           IF Within(b, pos, 12, end)
           THEN Good(ObjectIdValue(SubSeq(b, pos, pos + 11)), pos + 12)
           ELSE Fail("InvalidDocument")
      [] tag = 8 ->
           IF Within(b, pos, 1, end) /\ b[pos] \in {0, 1}
           THEN Good(Boolean(b[pos] = 1), pos + 1)
           ELSE Fail("InvalidDocument")
      [] tag = 9 -> DecodeI64(b, pos, end, "UTCDateTime")
      [] tag = 10 -> Good(Null, pos)
      [] tag = 11 ->
           LET pat == DecodeCString(b, pos, end)
               opt == DecodeCString(b, pat.pos, end)
           IN  IF ~pat.ok THEN pat
               ELSE IF ~opt.ok THEN opt
               ELSE Good(RegularExpression(pat.v, opt.v), opt.pos)
      [] tag = 13 ->
           LET r == DecodeString(b, pos, end)
           IN  IF r.ok THEN Good(JavaScriptCode(r.v), r.pos) ELSE r
      [] tag = 16 ->
           IF Within(b, pos, 4, end)
           THEN Good(Int32(FromI32LE(SubSeq(b, pos, pos + 3))), pos + 4)
           ELSE Fail("InvalidDocument")
      [] tag = 17 -> DecodeI64(b, pos, end, "Timestamp")
      [] tag = 18 -> DecodeI64(b, pos, end, "Int64")
      [] tag = 19 -> DecodeI64(b, pos, end, "UInt64")
      [] tag = 255 -> Good(MinKey, pos)
      [] tag = 127 -> Good(MaxKey, pos)
      [] tag \in {6, 12, 14, 15} -> Fail("Deprecated")
      [] OTHER -> Fail("InvalidValue")

\* The fields of the frame that ends at end, from pos on; acc holds the
\* fields read so far.
DecodeElements(b, pos, end, acc) ==
    IF pos >= end THEN Fail("InvalidDocument")
    ELSE IF b[pos] = 0 /\ pos = end - 1 THEN Good(acc, end)
    ELSE LET name == DecodeCString(b, pos + 1, end)
             r == DecodeValue(b, b[pos], name.pos, end)
         IN  IF ~name.ok THEN name
             ELSE IF ~r.ok THEN r
             ELSE IF r.pos > end THEN Fail("InvalidDocument")
             ELSE DecodeElements(b, r.pos, end, Inserted(acc, name.v, r.v))

\* The document framed at index start of b.
DecodeDocument(b, start) ==
    IF start + 3 > Len(b) \/ \E i \in start..(start + 3) : b[i] < 0
    THEN Fail("InvalidDocument")
    ELSE LET length == FromLE32(SubSeq(b, start, start + 3))
         IN  IF length.hi > 0 THEN Fail("BufferOverflow")
             ELSE IF length.lo < 5 \/ start + length.lo - 1 > Len(b)
             THEN Fail("InvalidDocument")
             ELSE DecodeElements(b, start + 4, start + length.lo, <<>>)

\* decode(bytes)
decode(bytes) == DecodeDocument(bytes, 1)

RECURSIVE NonDeprecated(_)
\* value is built from non-deprecated variants only.
NonDeprecated(value) ==
    /\ value.t \notin DeprecatedVariants
    /\ value.t = "Document" =>
         \A i \in 1..Len(value.v) : NonDeprecated(value.v[i][2])
    /\ value.t = "Array" =>
         \A i \in 1..Len(value.v) : NonDeprecated(value.v[i])

\* C14: decoding the bytes produced by encoding a document built from
\* non-deprecated variants yields a document equal to it, field order
\* included: decode(encode(v)) = v.
C14_RoundTrip ==
    FreshDocOk /\ NonDeprecated(DocumentValue(EncodedDoc)) =>
        /\ decode(ser.buf).ok
        /\ decode(ser.buf).v = EncodedDoc

f64_negative(x) == x[1] >= 128

f64_exponent(x) == (x[1] % 128) * 16 + (x[2] \div 16)

f64_mantissa(x) == << x[2] % 16, x[3], x[4], x[5], x[6], x[7], x[8] >>

f64_mantissa_zero(x) == f64_mantissa(x) = << 0, 0, 0, 0, 0, 0, 0 >>

\* f64::is_nan, f64::is_infinite, f64::is_finite
is_nan(x) == f64_exponent(x) = 2047 /\ ~f64_mantissa_zero(x)

is_infinite(x) == f64_exponent(x) = 2047 /\ f64_mantissa_zero(x)

is_finite(x) == f64_exponent(x) # 2047

f64_zero(x) == f64_exponent(x) = 0 /\ f64_mantissa_zero(x)

\* x == y on f64: NaN equals nothing, the two zeros are equal.
f64_eq(x, y) ==
    /\ ~is_nan(x)
    /\ ~is_nan(y)
    /\ x = y \/ (f64_zero(x) /\ f64_zero(y))

(* ---------------------------- the types: Value ------------------------- *)

ZeroBits == << 0, 0, 0, 0, 0, 0, 0, 0 >>
NegZeroBits == << 128, 0, 0, 0, 0, 0, 0, 0 >>

\* The values the functions of Value are applied to: every variant, the
\* integer 1 in each numeric variant, and a document in two iteration orders.
Operands ==
    Values \o
    << Int64(1),
       Double(ZeroBits), Double(NegZeroBits),
       DocumentValue(<< << NameX, Null >>,
                        << NameA, JavaScriptCodeWithScope(<<>>, <<>>) >> >>),
       DocumentValue(<< << NameA, Null >>,
                        << NameX, JavaScriptCodeWithScope(<<>>, <<>>) >> >>) >>

RECURSIVE ValueEq(_, _), DocumentEq(_, _), ArrayEq(_, _)

\* #[derive(PartialEq)] of Document: equality of the HashMaps, whatever
\* their iteration orders.
DocumentEq(d, e) ==
    /\ Len(d) = Len(e)
    /\ \A i \in 1..Len(d) :
         \E j \in 1..Len(e) : d[i][1] = e[j][1] /\ ValueEq(d[i][2], e[j][2])

\* #[derive(PartialEq)] of Array: equality of the Vecs.
ArrayEq(a, b) ==
    /\ Len(a) = Len(b)
    /\ \A i \in 1..Len(a) : ValueEq(a[i], b[i])

\* An equality that compares the integer variants by their number.
ValueEq_numeric(a, b) ==
    IF /\ a.t \in { "Int32", "Int64", "UInt64", "UTCDateTime", "Timestamp" }
       /\ b.t \in { "Int32", "Int64", "UInt64", "UTCDateTime", "Timestamp" }
    THEN a.v = b.v
    ELSE a.t = b.t

\* #[derive(PartialEq)] of Value: the same variant, and equal fields.
ValueEq(a, b) ==
    IF a.t # b.t THEN FALSE
    ELSE CASE a.t = "Double" -> f64_eq(a.v, b.v)
           [] a.t = "Document" -> DocumentEq(a.v, b.v)
           [] a.t = "Array" -> ArrayEq(a.v, b.v)
           [] a.t = "RegularExpression" ->
                  a.v.pattern = b.v.pattern /\ a.v.options = b.v.options
           [] a.t = "JavaScriptCodeWithScope" ->
                  a.v.code = b.v.code /\ DocumentEq(a.v.scope, b.v.scope)
           [] a.t \in { "Null", "MinKey", "MaxKey" } -> TRUE
           [] OTHER -> a.v = b.v

\* The typed accessors of Value: Some(payload) is << payload >>, None is << >>.
as_f64(value) == IF value.t = "Double" THEN << value.v >> ELSE << >>

as_str(value) == IF value.t = "String" THEN << value.v >> ELSE << >>

as_i32(value) == IF value.t = "Int32" THEN << value.v >> ELSE << >>

\* An accessor that takes every variant holding an i64.
as_i64_any_i64(value) ==
    IF value.t \in { "Int64", "UTCDateTime", "Timestamp" }
    THEN << value.v >> ELSE << >>

as_i64(value) == IF value.t = "Int64" THEN << value.v >> ELSE << >>

as_document(value) == IF value.t = "Document" THEN << value.v >> ELSE << >>

as_array(value) == IF value.t = "Array" THEN << value.v >> ELSE << >>

\* A function of the types is applied outside any serializer and any
\* document: nothing changes but the record of the application.
Applied == UNCHANGED << doc, inserted, distinct, ser, json, calls >>

\* a == b on two Values
Eq(a, b) ==
    /\ last' = [op |-> "eq", arg |-> [a |-> a, b |-> b], pre |-> << >>,
                ret |-> << ValueEq(a, b) >>]
    /\ Applied

\* The six accessors called on one Value
Accessors(value) ==
    /\ last' = [op |-> "accessors", arg |-> value, pre |-> << >>,
                ret |-> [as_f64 |-> as_f64(value), as_str |-> as_str(value),
                         as_i32 |-> as_i32(value), as_i64 |-> as_i64(value),
                         as_document |-> as_document(value),
                         as_array |-> as_array(value)]]
    /\ Applied

IntegerVariants == { "Int32", "Int64", "UInt64", "UTCDateTime", "Timestamp" }

\* C16: two Values are equal only if they are of the same variant with
\* equal payloads; in particular a number held in two of Int32, Int64,
\* UInt64, Double, UTCDateTime, Timestamp is never equal to itself across
\* the variants.
C16_StructuralEquality ==
    last.op = "eq" =>
        LET a == last.arg.a
            b == last.arg.b
            equal == last.ret = << TRUE >>
        IN  /\ a.t # b.t => ~equal
            /\ equal /\ a.t \in IntegerVariants \cup { "Boolean" }
                 => a.v = b.v
            /\ equal /\ a.t \in { "String", "Binary", "ObjectId",
                                  "JavaScriptCode" }
                 => a.v = b.v
            /\ equal /\ a.t = "Double"
                 => ~is_nan(a.v) /\ (a.v = b.v \/ a.v \in { ZeroBits, NegZeroBits })
            /\ equal /\ a.t \in { "Document", "Array" }
                 => Len(a.v) = Len(b.v)
            /\ equal /\ a.t = "Document"
                 => \A i \in 1..Len(a.v) : contains_key(b.v, a.v[i][1])

\* Int32(1) was compared with Int64(1) and found different.
C16_Witness ==
    /\ last.op = "eq"
    /\ last.arg.a.t = "Int32"
    /\ last.arg.b.t = "Int64"
    /\ last.arg.a.v = 1
    /\ last.arg.b.v = 1
    /\ last.ret = << FALSE >>

\* The number of accessors that returned Some.
SomeCount(r) ==
    Len(r.as_f64) + Len(r.as_str) + Len(r.as_i32) + Len(r.as_i64)
      + Len(r.as_document) + Len(r.as_array)

\* C17: each typed accessor returns the payload exactly when the value is of
\* its own variant and None otherwise; as_i64 returns None for Int32,
\* UInt64, UTCDateTime and Timestamp; at most one accessor returns Some.
C17_Accessors ==
    last.op = "accessors" =>
        LET value == last.arg
            r == last.ret
            Own(got, variant) ==
                IF value.t = variant THEN got = << value.v >> ELSE got = << >>
        IN  /\ Own(r.as_f64, "Double")
            /\ Own(r.as_str, "String")
            /\ Own(r.as_i32, "Int32")
            /\ Own(r.as_i64, "Int64")
            /\ Own(r.as_document, "Document")
            /\ Own(r.as_array, "Array")
            /\ value.t \in { "Int32", "UInt64", "UTCDateTime", "Timestamp" }
                 => r.as_i64 = << >>
            /\ SomeCount(r) <= 1

\* The accessors were called on a Timestamp, which holds an i64, and all
\* returned None.
C17_Witness ==
    /\ last.op = "accessors"
    /\ last.arg.t = "Timestamp"
    /\ SomeCount(last.ret) = 0

(* ---------------------------- the JSON serializer: scalars ------------- *)

\* The number of calls made on one JsonSerializer.
MaxJsonCalls == 2

\* String::push_str on the output
push_str(s, bytes) == [s EXCEPT !.output = @ \o bytes]

RECURSIVE Pow2(_)
Pow2(n) == IF n = 0 THEN 1 ELSE 2 * Pow2(n - 1)

RECURSIVE FractionDigits(_, _)
\* The decimal digits of num / den, a fraction below one that ends.
FractionDigits(num, den) ==
    IF num = 0 THEN << >>
    ELSE << 48 + ((num * 10) \div den) >>
           \o FractionDigits((num * 10) % den, den)

\* f64::to_string (Display) of a finite value: the shortest decimal that
\* reads back as the value, without exponent, "-0" for the negative zero.
\* Computed for the zeros and for the values n * 2^shift with n the top 21
\* bits of the significand, the lower 32 being clear, and shift in -24..9,
\* whose exact decimal has at most 15 significant digits and so is that
\* shortest decimal.
f64_to_string(x) ==
    LET sign == IF f64_negative(x) THEN << 45 >> ELSE << >>
        m == f64_mantissa(x)
        n == 1048576 + m[1] * 65536 + m[2] * 256 + m[3]
        shift == f64_exponent(x) - 1043
    IN  IF f64_zero(x) THEN sign \o << 48 >>
        ELSE IF shift >= 0 THEN sign \o to_string(n * Pow2(shift))
        ELSE LET den == Pow2(-shift)
             IN  sign \o to_string(n \div den)
                   \o (IF n % den = 0 THEN << >>
                       ELSE << 46 >> \o FractionDigits(n % den, den))

\* f64::to_string of any value: "NaN", "inf" and "-inf" for the others.
f64_display(x) ==
    IF is_finite(x) THEN f64_to_string(x)
    ELSE IF is_nan(x) THEN << 78, 97, 78 >>
    ELSE IF f64_negative(x) THEN << 45, 105, 110, 102 >>
    ELSE << 105, 110, 102 >>

\* A serialize_f64 that pushes to_string of every value.
Json_serialize_f64_display(s, value) == push_str(s, f64_display(value))

\* JsonSerializer::serialize_f64
Json_serialize_f64(s, value) ==
    IF is_finite(value) THEN push_str(s, f64_to_string(value))
    ELSE IF is_nan(value) THEN push_str(s, << 110, 117, 108, 108 >>)
    ELSE IF is_infinite(value)
         THEN IF ~f64_negative(value)
              THEN push_str(s, << 110, 117, 108, 108 >>)
              ELSE push_str(s, << 110, 117, 108, 108 >>)
    ELSE s

RECURSIVE chars(_)
\* str::chars: the code points of a String, decoded from its UTF-8.
chars(b) ==
    IF b = << >> THEN << >>
    ELSE IF b[1] < 128 THEN << b[1] >> \o chars(Tail(b))
    ELSE IF b[1] < 224
         THEN << (b[1] % 32) * 64 + (b[2] % 64) >>
                \o chars(SubSeq(b, 3, Len(b)))
    ELSE IF b[1] < 240
         THEN << (b[1] % 16) * 4096 + (b[2] % 64) * 64 + (b[3] % 64) >>
                \o chars(SubSeq(b, 4, Len(b)))
    ELSE << (b[1] % 8) * 262144 + (b[2] % 64) * 4096
              + (b[3] % 64) * 64 + (b[4] % 64) >>
           \o chars(SubSeq(b, 5, Len(b)))

\* char::encode_utf8: the UTF-8 of one char.
encode_utf8(c) ==
    IF c < 128 THEN << c >>
    ELSE IF c < 2048 THEN << 192 + (c \div 64), 128 + (c % 64) >>
    ELSE IF c < 65536
         THEN << 224 + (c \div 4096), 128 + ((c \div 64) % 64),
                 128 + (c % 64) >>
    ELSE << 240 + (c \div 262144), 128 + ((c \div 4096) % 64),
            128 + ((c \div 64) % 64), 128 + (c % 64) >>

\* String::push(c)
push(s, c) == push_str(s, encode_utf8(c))

\* A test for the C0 controls only.
is_control_c0(c) == c < 32

\* char::is_control: the general category Cc, U+0000..U+001F and
\* U+007F..U+009F.
is_control(c) == c < 32 \/ (c >= 127 /\ c <= 159)

\* One lowercase hexadecimal digit.
hex_digit(d) == IF d < 10 THEN 48 + d ELSE 87 + d

RECURSIVE LowerHex(_)
\* {:x}: the lowercase hexadecimal digits of n, without leading zeros.
LowerHex(n) ==
    IF n < 16 THEN << hex_digit(n) >>
    ELSE LowerHex(n \div 16) \o << hex_digit(n % 16) >>

\* {:0w}: zeros on the left up to the width, nothing cut.
ZeroPadded(digits, width) ==
    IF Len(digits) >= width THEN digits
    ELSE [i \in 1..(width - Len(digits)) |-> 48] \o digits

\* One turn of the loop of serialize_string.
EscapeChar(s, c) ==
    CASE c = 34 -> push_str(s, << 92, 34 >>)
      [] c = 92 -> push_str(s, << 92, 92 >>)
      [] c = 10 -> push_str(s, << 92, 110 >>)
      [] c = 13 -> push_str(s, << 92, 114 >>)
      [] c = 9 -> push_str(s, << 92, 116 >>)
      [] c \notin { 34, 92, 10, 13, 9 } /\ is_control(c) ->
             push_str(s, << 92, 117 >> \o ZeroPadded(LowerHex(c), 4))
      [] OTHER -> push(s, c)

RECURSIVE EscapeLoop(_, _)
EscapeLoop(s, cs) ==
    IF cs = << >> THEN s
    ELSE EscapeLoop(EscapeChar(s, Head(cs)), Tail(cs))

\* JsonSerializer::serialize_string
Json_serialize_string(s, value) ==
    push(EscapeLoop(push(s, 34), chars(value)), 34)

\* {} of an i32 or i64: the decimal digits, "-" first if negative.
int_to_string(n) == IF n < 0 THEN << 45 >> \o to_string(-n) ELSE to_string(n)

\* JsonSerializer::serialize_i32
Json_serialize_i32(s, value) == push_str(s, int_to_string(value))

\* JsonSerializer::serialize_i64
Json_serialize_i64(s, value) == push_str(s, int_to_string(value))

\* A step of a method body: skipped once a step before it has panicked.
Json_push(s, c) == IF s.res # "Ok" THEN s ELSE push(s, c)

Json_push_str(s, bytes) == IF s.res # "Ok" THEN s ELSE push_str(s, bytes)

RECURSIVE repeat(_, _)
\* str::repeat
repeat(bytes, n) == IF n = 0 THEN << >> ELSE bytes \o repeat(bytes, n - 1)

\* The indentation is one space per level.
Json_write_indent_one_space(s) ==
    IF s.res # "Ok" \/ ~s.pretty THEN s
    ELSE push_str(s, repeat(<< 32 >>, s.indent_level))

\* JsonSerializer::write_indent; repeat(usize::MAX) panics, the String
\* being too large to allocate.
Json_write_indent(s) ==
    IF s.res # "Ok" \/ ~s.pretty THEN s
    ELSE IF s.indent_level = -1 THEN [s EXCEPT !.res = "Panic"]
    ELSE push_str(s, repeat(<< 32, 32 >>, s.indent_level))

\* JsonSerializer::write_newline
Json_write_newline(s) ==
    IF s.res # "Ok" \/ ~s.pretty THEN s ELSE push(s, 10)

\* JsonSerializer::write_separator
Json_write_separator(s) ==
    IF s.res # "Ok" THEN s
    ELSE IF s.pretty THEN push_str(s, << 44, 10 >>) ELSE push(s, 44)

\* self.indent_level += 1
Json_indent_more(s) ==
    IF s.res # "Ok" THEN s
    ELSE IF s.indent_level = -1
         THEN IF s.overflow_checks THEN [s EXCEPT !.res = "Panic"]
              ELSE [s EXCEPT !.indent_level = 0]
    ELSE [s EXCEPT !.indent_level = @ + 1]

\* The level is left as it is.
Json_indent_kept(s) == s

\* self.indent_level -= 1: at 0 a panic with overflow checks, usize::MAX
\* without.
Json_indent_less(s) ==
    IF s.res # "Ok" THEN s
    ELSE IF s.indent_level = 0
         THEN IF s.overflow_checks THEN [s EXCEPT !.res = "Panic"]
              ELSE [s EXCEPT !.indent_level = -1]
    ELSE [s EXCEPT !.indent_level = @ - 1]

\* JsonSerializer::start_document
Json_start_document(s) ==
    Json_write_newline(Json_indent_more(Json_push(s, 123)))

\* JsonSerializer::end_document
Json_end_document(s) ==
    Json_push(Json_write_indent(Json_write_newline(Json_indent_less(s))),
              125)

\* JsonSerializer::serialize_field_name
Json_serialize_field_name(s, name) ==
    LET indented == Json_write_indent(s)
    IN  IF indented.res # "Ok" THEN indented
        ELSE push_str(Json_serialize_string(indented, name), << 58, 32 >>)

RECURSIVE Json_serialize(_, _), Json_serialize_document(_, _),
          Json_serialize_array(_, _), Json_DocumentLoop(_, _, _),
          Json_ArrayLoop(_, _, _)

\* Value::serialize on a JsonSerializer, for the variants whose method
\* JsonSerializer has.
Json_serialize(s, value) ==
    IF s.res # "Ok" THEN s
    ELSE CASE value.t = "Double"   -> Json_serialize_f64(s, value.v)
           [] value.t = "String"   -> Json_serialize_string(s, value.v)
           [] value.t = "Document" -> Json_serialize_document(s, value.v)
           [] value.t = "Array"    -> Json_serialize_array(s, value.v)
           [] value.t = "Int32"    -> Json_serialize_i32(s, value.v)
           [] value.t = "Int64"    -> Json_serialize_i64(s, value.v)

\* The loop of serialize_document from entry i on; first is i = 1.
Json_DocumentLoop(s, value, i) ==
    IF i > Len(value) \/ s.res # "Ok" THEN s
    ELSE LET separated == IF i > 1 THEN Json_write_separator(s) ELSE s
         IN  Json_DocumentLoop(
                 Json_serialize(
                     Json_serialize_field_name(separated, value[i][1]),
                     value[i][2]),
                 value, i + 1)

\* JsonSerializer::serialize_document
Json_serialize_document(s, value) ==
    Json_end_document(Json_DocumentLoop(Json_start_document(s), value, 1))

\* The loop of serialize_array from element i on; first is i = 1.
Json_ArrayLoop(s, value, i) ==
    IF i > Len(value) \/ s.res # "Ok" THEN s
    ELSE LET separated == IF i > 1 THEN Json_write_separator(s) ELSE s
         IN  Json_ArrayLoop(
                 Json_serialize(Json_write_indent(separated), value[i]),
                 value, i + 1)

\* JsonSerializer::serialize_array
Json_serialize_array(s, value) ==
    LET opened == Json_write_newline(Json_indent_more(Json_push(s, 91)))
        looped == Json_ArrayLoop(opened, value, 1)
    IN  Json_push(
            Json_write_indent(Json_write_newline(Json_indent_less(looped))),
            93)

\* The values handed to Value::serialize on a JsonSerializer, of the six
\* variants it has a method for: -2, {}, {"a": 1, "x": "hi"},
\* {"a": 1, "x": {"y": [10, 20], "a": "a\",{\n  "}}, [],
\* [10, {"a": -1}, [], -2.5].
JsonValues ==
    << Int32(-2),
       DocumentValue(<< >>),
       DocumentValue(<< << NameA, Int32(1) >>,
                        << NameX, String(<< 104, 105 >>) >> >>),
       DocumentValue(
           << << NameA, Int32(1) >>,
              << NameX,
                 DocumentValue(
                     << << NameY, ArrayValue(<< Int32(10), Int32(20) >>) >>,
                        << NameA,
                           String(<< 97, 34, 44, 123, 10, 32, 32 >>) >>
                     >>) >> >>),
       ArrayValue(<< >>),
       ArrayValue(<< Int32(10),
                     DocumentValue(<< << NameA, Int64(-1) >> >>),
                     ArrayValue(<< >>),
                     Double(<< 192, 4, 0, 0, 0, 0, 0, 0 >>) >>) >>

\* The Strings handed to serialize_string, as UTF-8: "", "hi", one string
\* for each escaped character, the controls U+0001, U+001F, U+007F, U+0085
\* and U+009F, their neighbours U+0020, U+007E and U+00A0, and characters of
\* two, three and four bytes.
Strings ==
    << << >>,
       << 104, 105 >>,
       << 97, 34, 98 >>,
       << 92 >>,
       << 10 >>, << 13 >>, << 9 >>,
       << 1 >>, << 31 >>,
       << 32 >>, << 126 >>,
       << 127 >>,
       << 194, 133 >>, << 194, 159 >>,
       << 194, 160 >>,
       << 99, 195, 169 >>,
       << 226, 130, 172 >>,
       << 240, 159, 152, 128 >>,
       << 34, 92, 10, 127, 195, 169, 8 >> >>

InfBits == << 127, 240, 0, 0, 0, 0, 0, 0 >>
NegInfBits == << 255, 240, 0, 0, 0, 0, 0, 0 >>
NegNaNBits == << 255, 240, 0, 0, 0, 0, 0, 1 >>

\* The f64 handed to serialize_f64: the NaNs and infinities, the zeros,
\* 1, -2.5, 1234.5, 0.0625 and 1048576.
Doubles ==
    << NaNBits, NegNaNBits, InfBits, NegInfBits,
       ZeroBits, NegZeroBits, OneBits,
       << 192, 4, 0, 0, 0, 0, 0, 0 >>,
       << 64, 147, 74, 0, 0, 0, 0, 0 >>,
       << 63, 176, 0, 0, 0, 0, 0, 0 >>,
       << 65, 48, 0, 0, 0, 0, 0, 0 >> >>

\* JsonSerializer::new(pretty), in a build with or without overflow checks.
JsonNew(pretty, checks) ==
    /\ json' = [JsonSerializer_new(pretty) EXCEPT !.overflow_checks = checks]
    /\ calls' = 0
    /\ last' = NoCall
    /\ UNCHANGED << doc, inserted, distinct, ser >>

JsonCalled(op, arg, post) ==
    /\ json.res # "Panic"
    /\ calls < MaxJsonCalls
    /\ json' = post
    /\ calls' = calls + 1
    /\ last' = [op |-> op, arg |-> arg, pre |-> json, ret |-> << >>]
    /\ UNCHANGED << doc, inserted, distinct, ser >>

JsonSerializeF64(value) ==
    JsonCalled("json.serialize_f64", value, Json_serialize_f64(json, value))

JsonSerializeString(value) ==
    JsonCalled("json.serialize_string", value,
               Json_serialize_string(json, value))

\* value.serialize(&mut serializer)
JsonSerialize(value) ==
    JsonCalled("json.serialize", value, Json_serialize(json, value))

JsonStartDocument ==
    JsonCalled("json.start_document", << >>, Json_start_document(json))

JsonEndDocument ==
    JsonCalled("json.end_document", << >>, Json_end_document(json))

JsonSerializeFieldName(name) ==
    JsonCalled("json.serialize_field_name", name,
               Json_serialize_field_name(json, name))

JsonNext ==
    \/ \E pretty, checks \in BOOLEAN : JsonNew(pretty, checks)
    \/ \E d \in 1..Len(Doubles) : JsonSerializeF64(Doubles[d])
    \/ \E v \in 1..Len(Strings) : JsonSerializeString(Strings[v])
    \/ \E v \in 1..Len(JsonValues) : JsonSerialize(JsonValues[v])
    \/ JsonStartDocument
    \/ JsonEndDocument
    \/ JsonSerializeFieldName(NameA)

JsonSpec == Init /\ [][JsonNext]_vars

(* ---------------------------- the types: ObjectId ---------------------- *)

\* ObjectId::from_bytes
ObjectId_from_bytes(bytes) == [inner |-> bytes]

\* ObjectId::as_bytes
as_bytes(id) == id.inner

\* The value of a hexadecimal digit of either case, -1 for another char.
hex_val(c) ==
    IF c \in 48..57 THEN c - 48
    ELSE IF c \in 97..102 THEN c - 87
    ELSE IF c \in 65..70 THEN c - 55
    ELSE -1

\* hex::decode: an error for an odd length or a char that is no digit.
hex_decode(s) ==
    IF Len(s) % 2 # 0 \/ \E i \in 1..Len(s) : hex_val(s[i]) = -1
    THEN [res |-> "Err", bytes |-> << >>]
    ELSE [res |-> "Ok",
          bytes |-> [i \in 1..(Len(s) \div 2) |->
                        hex_val(s[2 * i - 1]) * 16 + hex_val(s[2 * i])]]

\* An encoding in uppercase digits.
hex_encode_upper(bytes) ==
    [i \in 1..(2 * Len(bytes)) |->
        LET d == IF i % 2 = 1 THEN bytes[(i + 1) \div 2] \div 16
                 ELSE bytes[i \div 2] % 16
        IN  IF d < 10 THEN 48 + d ELSE 55 + d]

\* hex::encode: two lowercase digits for each byte.
hex_encode(bytes) ==
    [i \in 1..(2 * Len(bytes)) |->
        hex_digit(IF i % 2 = 1 THEN bytes[(i + 1) \div 2] \div 16
                  ELSE bytes[i \div 2] % 16)]

\* impl From<&str> for ObjectId: unwrap panics on a decoding error,
\* copy_from_slice on a length other than 12.
ObjectId_from(s) ==
    LET decoded == hex_decode(s)
    IN  IF decoded.res # "Ok" \/ Len(decoded.bytes) # 12
        THEN [res |-> "Panic", id |-> ObjectId_from_bytes(<< >>)]
        ELSE [res |-> "Ok", id |-> ObjectId_from_bytes(decoded.bytes)]

\* impl Into<String> for ObjectId
into_string(id) == hex_encode(id.inner)

\* impl Into<Vec<u8>> for ObjectId
into_vec(id) == id.inner

\* impl Display for ObjectId
fmt(id) == hex_encode(id.inner)

\* The arrays handed to from_bytes.
IdBytes ==
    << AnObjectId,
       << 0, 0, 0, 0, 0, 0, 0, 0, 0, 0, 0, 0 >>,
       << 255, 255, 255, 255, 255, 255, 255, 255, 255, 255, 255, 255 >>,
       << 171, 205, 239, 1, 35, 69, 103, 137, 10, 160, 15, 240 >> >>

\* The strings handed to ObjectId::from are two chars, among them an
\* uppercase digit and a char that is no digit, followed by one of these:
\* 22 digits (twice), 20 digits, 23 digits, 24 digits.
IdChars == << 48, 57, 97, 102, 65, 103 >>

IdTails ==
    << << 48, 49, 50, 51, 52, 53, 54, 55, 56, 57, 97,
          98, 99, 100, 101, 102, 48, 49, 50, 51, 52, 53 >>,
       << 102, 102, 102, 102, 102, 102, 102, 102, 102, 102, 102,
          102, 102, 102, 102, 102, 102, 102, 102, 102, 102, 102 >>,
       << 48, 49, 50, 51, 52, 53, 54, 55, 56, 57,
          97, 98, 99, 100, 101, 102, 48, 49, 50, 51 >>,
       << 48, 49, 50, 51, 52, 53, 54, 55, 56, 57, 97, 98,
          99, 100, 101, 102, 48, 49, 50, 51, 52, 53, 54 >>,
       << 48, 49, 50, 51, 52, 53, 54, 55, 56, 57, 97, 98,
          99, 100, 101, 102, 48, 49, 50, 51, 52, 53, 54, 55 >> >>

\* ObjectId::from_bytes(bytes).as_bytes()
ObjectIdFromBytes(bytes) ==
    /\ last' = [op |-> "ObjectId::from_bytes", arg |-> bytes, pre |-> << >>,
                ret |-> as_bytes(ObjectId_from_bytes(bytes))]
    /\ Applied

\* What the conversions of an ObjectId give.
Conversions(made) ==
    [res |-> made.res,
     string |-> into_string(made.id),
     display |-> fmt(made.id),
     bytes |-> into_vec(made.id)]

\* ObjectId::from(s), then the conversions of the result
ObjectIdFrom(s) ==
    /\ last' = [op |-> "ObjectId::from", arg |-> s, pre |-> << >>,
                ret |-> Conversions(ObjectId_from(s))]
    /\ Applied

(* ---------------------------- Display and the error messages ----------- *)

RECURSIVE u64_to_string(_)
\* {} of a u64 or usize held as [hi, lo].
u64_to_string(x) ==
    LET rest == (x.hi % 10) * Limb + x.lo
        quotient == U64(x.hi \div 10, rest \div 10)
    IN  IF quotient = Zero64 THEN << 48 + (rest % 10) >>
        ELSE u64_to_string(quotient) \o << 48 + (rest % 10) >>

\* The width of the char that starts with the byte.
utf8_char_width(byte) ==
    IF byte < 128 THEN 1 ELSE IF byte < 224 THEN 2
    ELSE IF byte < 240 THEN 3 ELSE 4

RECURSIVE chars_take(_, _)
\* chars().take(n): the iterator decodes no more than the n chars it yields.
chars_take(b, n) ==
    IF n = 0 \/ b = << >> THEN << >>
    ELSE LET width == utf8_char_width(b[1])
         IN  chars(SubSeq(b, 1, width))
               \o chars_take(SubSeq(b, width + 1, Len(b)), n - 1)

\* chars().count(): the bytes that are not continuation bytes.
chars_count(b) == Cardinality({ k \in 1..Len(b) : b[k] \notin 128..191 })

RECURSIVE collect(_)
\* collect::<String>() over chars
collect(cs) ==
    IF cs = << >> THEN << >> ELSE encode_utf8(Head(cs)) \o collect(Tail(cs))

RECURSIVE fmt_Value(_), fmt_Document(_), fmt_Fields(_, _), fmt_Elements(_, _)

\* impl Display for Document
fmt_Document(d) == << 123 >> \o fmt_Fields(d, 1) \o << 125 >>

\* The loop of Display for Document, from entry i on.
fmt_Fields(d, i) ==
    IF i > Len(d) THEN << >>
    ELSE (IF i > 1 THEN << 44, 32 >> ELSE << >>)
           \o << 34 >> \o d[i][1] \o << 34, 58, 32 >> \o fmt_Value(d[i][2])
           \o fmt_Fields(d, i + 1)

\* The loop of Display for Value::Array, from element i on.
fmt_Elements(a, i) ==
    IF i > Len(a) THEN << >>
    ELSE (IF i > 1 THEN << 44, 32 >> ELSE << >>)
           \o fmt_Value(a[i]) \o fmt_Elements(a, i + 1)

\* impl Display for Value
fmt_Value(value) ==
    CASE value.t = "Double" -> f64_display(value.v)
      [] value.t = "String" -> value.v
      [] value.t = "Document" -> fmt_Document(value.v)
      [] value.t = "Array" -> << 91 >> \o fmt_Elements(value.v, 1) \o << 93 >>
      [] value.t = "Binary" ->
             << 66, 105, 110, 97, 114, 121, 40, 108, 101, 110, 58, 32 >>
               \o u64_to_string(SizeOf(value.v)) \o << 41 >>
      [] value.t = "ObjectId" ->
             << 79, 98, 106, 101, 99, 116, 73, 68, 40, 34 >>
               \o hex_encode(value.v) \o << 34, 41 >>
      [] value.t = "Boolean" ->
             IF value.v THEN << 116, 114, 117, 101 >>
             ELSE << 102, 97, 108, 115, 101 >>
      [] value.t = "UTCDateTime" ->
             << 68, 97, 116, 101, 84, 105, 109, 101, 40 >>
               \o int_to_string(value.v) \o << 41 >>
      [] value.t = "Null" -> << 110, 117, 108, 108 >>
      [] value.t = "RegularExpression" ->
             << 47 >> \o value.v.pattern \o << 47 >> \o value.v.options
      [] value.t = "Int32" -> int_to_string(value.v)
      [] value.t = "Timestamp" ->
             << 84, 105, 109, 101, 115, 116, 97, 109, 112, 40 >>
               \o int_to_string(value.v) \o << 41 >>
      [] value.t = "Int64" -> int_to_string(value.v)
      [] value.t = "UInt64" -> int_to_string(value.v)
      [] value.t = "MinKey" -> << 77, 105, 110, 75, 101, 121 >>
      [] value.t = "MaxKey" -> << 77, 97, 120, 75, 101, 121 >>
      [] value.t = "JavaScriptCode" ->
             << 74, 97, 118, 97, 83, 99, 114, 105, 112, 116, 67, 111, 100,
                101, 40 >>
               \o collect(chars_take(value.v, 10)) \o << 41 >>
      [] value.t = "JavaScriptCodeWithScope" ->
             << 74, 97, 118, 97, 83, 99, 114, 105, 112, 116, 67, 111, 100,
                101, 87, 105, 116, 104, 83, 99, 111, 112, 101, 40, 67, 111,
                100, 101, 40 >>
               \o collect(chars_take(value.v.code, 10))
               \o << 41, 44, 32, 83, 99, 111, 112, 101, 40 >>
               \o fmt_Document(value.v.scope) \o << 41, 41 >>

\* The code with "..." appended whenever it is cut.
truncated_code_marked_when_cut(code) ==
    collect(chars_take(code, 10))
      \o (IF chars_count(code) > 10 THEN << 46, 46, 46 >> ELSE << >>)

\* truncated_code of serialize_javascript_code_with_scope: the first 10
\* chars, and "..." if the code has more than 100.
truncated_code(code) ==
    collect(chars_take(code, 10))
      \o (IF chars_count(code) > 100 THEN << 46, 46, 46 >> ELSE << >>)

\* The message of the Deprecated that serialize_javascript_code_with_scope
\* returns: "JavaScript code with scope is deprecated. Code: {}, Scope: {}".
code_with_scope_message(code, scope) ==
    << 74, 97, 118, 97, 83, 99, 114, 105, 112, 116, 32, 99, 111, 100, 101, 32,
       119, 105, 116, 104, 32, 115, 99, 111, 112, 101, 32, 105, 115, 32, 100,
       101, 112, 114, 101, 99, 97, 116, 101, 100, 46, 32, 67, 111, 100, 101, 58,
       32 >>
      \o truncated_code(code) \o << 44, 32, 83, 99, 111, 112, 101, 58, 32 >>
      \o fmt_Document(scope)

\* The codes handed to serialize_javascript_code_with_scope: of 0, 1, 10,
\* 11, 100 and 101 one-byte chars, and of 12 and 101 two-byte chars.
Codes ==
    << << >>,
       << 102 >>,
       [i \in 1..10 |-> 96 + i],
       [i \in 1..11 |-> 96 + i],
       [i \in 1..100 |-> 97 + (i % 26)],
       [i \in 1..101 |-> 97 + (i % 26)],
       [i \in 1..24 |-> IF i % 2 = 1 THEN 195 ELSE 160 + (i \div 2)],
       [i \in 1..202 |-> IF i % 2 = 1 THEN 195 ELSE 160 + ((i \div 2) % 30)] >>

\* The scopes handed along, each code with one of them: {}, {"x": null},
\* {"a": 1, "x": {"y": true}}.
Scopes ==
    << << >>,
       << << NameX, Null >> >>,
       << << NameA, Int32(1) >>, << NameX, DocumentValue(DocY) >> >> >>

\* serializer.serialize_javascript_code_with_scope(code, &scope), with the
\* message of the error it returns.
SerializeJavascriptCodeWithScope(code, scope) ==
    /\ Callable
    /\ doc = << >>
    /\ ser' = serialize_javascript_code_with_scope(Entry, code, scope)
    /\ calls' = calls + 1
    /\ last' = [op |-> "serialize_javascript_code_with_scope",
                arg |-> [code |-> code, scope |-> scope],
                pre |-> ser,
                ret |-> << code_with_scope_message(code, scope) >>]
    /\ UNCHANGED << doc, inserted, distinct, json >>

\* The document and the BSON serializer.
Next ==
    \/ \E k \in 1..Len(Names), v \in 1..Len(FieldValues) :
           Insert(Names[k], FieldValues[v])
    \/ \E k \in 1..Len(Names) : Remove(Names[k])
    \/ Clear
    \/ NewSerializer
    \/ SerializeDocument
    \/ \E v \in 1..Len(Values) : Serialize(Values[v])
    \/ \E v \in 1..Len(Values) : VisitDocument(Values[v])
    \/ \E c \in 1..Len(Codes) :
           SerializeJavascriptCodeWithScope(Codes[c],
                                            Scopes[(c % Len(Scopes)) + 1])
    \/ SerializeUndefined
    \/ SerializeDbPointer
    \/ SerializeSymbol
    \/ \E n \in {-1, 1} : SerializeUtcDatetime(n)
    \/ StartDocument
    \/ EndDocument
    \/ \E k \in 1..Len(Names) : SerializeFieldName(Names[k])

Spec == Init /\ [][Next]_vars

\* The functions of the types: Value and ObjectId.
TypesNext ==
    \/ \E a \in 1..Len(Operands), b \in 1..Len(Operands) :
           Eq(Operands[a], Operands[b])
    \/ \E v \in 1..Len(Operands) : Accessors(Operands[v])
    \/ \E b \in 1..Len(IdBytes) : ObjectIdFromBytes(IdBytes[b])
    \/ \E c \in 1..Len(IdChars), d \in 1..Len(IdChars), t \in 1..Len(IdTails) :
           ObjectIdFrom(<< IdChars[c], IdChars[d] >> \o IdTails[t])

TypesSpec == Init /\ [][TypesNext]_vars

\* What the last call appended to the output.
Appended == SubSeq(json.output, Len(last.pre.output) + 1, Len(json.output))

KeptOutput == SubSeq(json.output, 1, Len(last.pre.output)) = last.pre.output

JsonNull == << 110, 117, 108, 108 >>

AllDigits(t) == t # << >> /\ \A i \in 1..Len(t) : t[i] \in 48..57

\* The number grammar of JSON, without exponent.
IsNumber(t) ==
    LET u == IF t # << >> /\ t[1] = 45 THEN Tail(t) ELSE t
    IN  \E k \in 1..Len(u) :
          /\ AllDigits(SubSeq(u, 1, k))
          /\ k = 1 \/ u[1] # 48
          /\ \/ k = Len(u)
             \/ u[k + 1] = 46 /\ AllDigits(SubSeq(u, k + 2, Len(u)))

\* C18: JsonSerializer::serialize_f64 appends exactly null for NaN,
\* +infinity and -infinity, appends a numeric literal and never null for a
\* finite value, and returns Ok.
C18_NonFiniteIsNull ==
    last.op = "json.serialize_f64" =>
        /\ json.res = "Ok"
        /\ KeptOutput
        /\ IF last.arg \in { NaNBits, NegNaNBits, InfBits, NegInfBits }
           THEN Appended = JsonNull
           ELSE Appended # JsonNull /\ IsNumber(Appended)

\* -infinity was serialized after a finite value, and null follows the
\* number in the output.
C18_Witness ==
    /\ last.op = "json.serialize_f64"
    /\ last.arg = NegInfBits
    /\ last.pre.output = << 45, 50, 46, 53 >>
    /\ json.output = << 45, 50, 46, 53, 110, 117, 108, 108 >>

\* The bytes of the i-th character of a String: from its lead byte up to
\* the next lead byte.
IsLead(byte) == byte < 128 \/ byte >= 192

CharBytes(b, i) ==
    LET leads == { k \in 1..Len(b) : IsLead(b[k]) }
        start == CHOOSE k \in leads :
                     Cardinality({ j \in leads : j < k }) = i - 1
        stop == IF \E k \in leads : k > start
                THEN (CHOOSE k \in leads :
                         k > start /\ \A j \in leads : j > start => j >= k) - 1
                ELSE Len(b)
    IN  SubSeq(b, start, stop)

CharCount(b) == Cardinality({ k \in 1..Len(b) : IsLead(b[k]) })

\* The code point of a character of one or two bytes; a longer one is
\* past U+07FF, where 65536 stands for it.
CodePoint(cb) ==
    IF Len(cb) = 1 THEN cb[1]
    ELSE IF Len(cb) = 2 THEN (cb[1] - 192) * 64 + (cb[2] - 128)
    ELSE 65536

Hex4(c) ==
    << hex_digit((c \div 4096) % 16), hex_digit((c \div 256) % 16),
       hex_digit((c \div 16) % 16), hex_digit(c % 16) >>

\* What the claim has serialize_string emit for one character, the
\* characters in escaped being those written as \uXXXX.
Emitted(cb, escaped) ==
    LET c == CodePoint(cb)
    IN  CASE c = 34 -> << 92, 34 >>
          [] c = 92 -> << 92, 92 >>
          [] c = 10 -> << 92, 110 >>
          [] c = 13 -> << 92, 114 >>
          [] c = 9 -> << 92, 116 >>
          [] c \notin { 34, 92, 10, 13, 9 } /\ c \in escaped ->
                 << 92, 117 >> \o Hex4(c)
          [] OTHER -> cb

RECURSIVE EmittedFrom(_, _, _)
EmittedFrom(b, i, escaped) ==
    IF i > CharCount(b) THEN << >>
    ELSE Emitted(CharBytes(b, i), escaped) \o EmittedFrom(b, i + 1, escaped)

Quoted(b, escaped) == << 34 >> \o EmittedFrom(b, 1, escaped) \o << 34 >>

\* C19 as stated: serialize_string emits the string between two double
\* quotes, with the quote, the backslash, newline, carriage return and tab
\* as their two-character escapes, every other character below 0x20 as
\* \uXXXX, and every character from 0x20 up unchanged.
C19_EscapesBelow0x20 ==
    last.op = "json.serialize_string" =>
        /\ json.res = "Ok"
        /\ KeptOutput
        /\ Appended = Quoted(last.arg, 0..31)

\* C19, amended: as above, but the characters written as \uXXXX, in
\* lowercase, are all the control characters, U+007F to U+009F included.
C19_EscapesControls ==
    last.op = "json.serialize_string" =>
        /\ json.res = "Ok"
        /\ KeptOutput
        /\ Appended = Quoted(last.arg, (0..31) \cup (127..159))

\* A string holding U+007F and other escaped characters was serialized into
\* an output that already held a string.
C19_Witness ==
    /\ last.op = "json.serialize_string"
    /\ last.arg = << 34, 92, 10, 127, 195, 169, 8 >>
    /\ last.pre.output = << 34, 194, 160, 34 >>
    /\ Appended = << 34, 92, 34, 92, 92, 92, 110, 92, 117, 48, 48, 55, 102,
                     195, 169, 92, 117, 48, 48, 48, 56, 34 >>

LowerHex24(s) ==
    Len(s) = 24 /\ \A i \in 1..24 : s[i] \in (48..57) \cup (97..102)

\* The bytes a string of lowercase hexadecimal digits denotes.
Denoted(s) ==
    LET Nibble(c) == IF c <= 57 THEN c - 48 ELSE c - 87
    IN  [i \in 1..(Len(s) \div 2) |->
            Nibble(s[2 * i - 1]) * 16 + Nibble(s[2 * i])]

\* C20: from_bytes(b).as_bytes() is b; for a string s of 24 lowercase
\* hexadecimal characters ObjectId::from(s) converts back to s, as a String
\* and by Display, and to the 12 bytes s denotes.
C20_ObjectIdRoundTrip ==
    /\ last.op = "ObjectId::from_bytes" => last.ret = last.arg
    /\ last.op = "ObjectId::from" /\ LowerHex24(last.arg) =>
         /\ last.ret.res = "Ok"
         /\ last.ret.string = last.arg
         /\ last.ret.display = last.arg
         /\ last.ret.bytes = Denoted(last.arg)
         /\ Len(last.ret.bytes) = 12

\* The string af0123456789abcdef012345 was converted: its first byte is
\* 0xaf and the String made of the ObjectId is the string itself.
C20_Witness ==
    /\ last.op = "ObjectId::from"
    /\ LowerHex24(last.arg)
    /\ last.arg[1] = 97
    /\ last.arg[2] = 102
    /\ last.ret.res = "Ok"
    /\ last.ret.bytes[1] = 175
    /\ last.ret.bytes[12] = 69
    /\ last.ret.string = last.arg

\* The bytes of the first k characters of a String, all of it if it has
\* no more than k.
FirstChars(b, k) ==
    IF CharCount(b) <= k THEN b
    ELSE LET next == CHOOSE j \in 1..Len(b) :
                         /\ IsLead(b[j])
                         /\ Cardinality({ i \in 1..j : IsLead(b[i]) }) = k + 1
         IN  SubSeq(b, 1, next - 1)

StartsWith(t, prefix) ==
    Len(t) >= Len(prefix) /\ SubSeq(t, 1, Len(prefix)) = prefix

CodeIntro ==
    << 74, 97, 118, 97, 83, 99, 114, 105, 112, 116, 32, 99, 111, 100, 101, 32,
       119, 105, 116, 104, 32, 115, 99, 111, 112, 101, 32, 105, 115, 32, 100,
       101, 112, 114, 101, 99, 97, 116, 101, 100, 46, 32, 67, 111, 100, 101, 58,
       32 >>

ScopeIntro == << 44, 32, 83, 99, 111, 112, 101, 58, 32 >>

C22_StartDocumentNoTag ==
    last.op = "start_document" =>
        /\ ser.res = "Ok"
        /\ Output = << 0, 0, 0, 0 >>
        /\ ser.stack = Append(last.pre.stack, last.pre.pos)

\* C23: end_document on an open document first emits the 0x00 terminator,
\* then pops the last pushed position p, overwrites the four bytes at p with
\* current - p as a little-endian u32, current being the position after the
\* terminator, and leaves the writer at current; no other byte changes.
C23_CloseEmitsTerminator ==
    last.op = "end_document" /\ last.pre.stack # << >> =>
        LET p == last.pre.stack[Len(last.pre.stack)]
            i == CellIndex(last.pre.buf, p)
            current == Add64(last.pre.pos, U64(0, 1))
        IN  /\ ser.res = "Ok"
            /\ Output = << 0 >>
            /\ ser.stack = SubSeq(last.pre.stack, 1, Len(last.pre.stack) - 1)
            /\ SubSeq(ser.buf, i + 1, i + 4) = LE32(AsU32(Sub64(current, p)))
            /\ ser.pos = current
            /\ \A k \in 1..Len(last.pre.buf) :
                   k \notin (i + 1)..(i + 4) => ser.buf[k] = last.pre.buf[k]

RECURSIVE Fails(_), FirstFailing(_, _), OpenAtFailure(_)
\* The value holds, at some depth, a variant whose method is refused.
Fails(value) ==
    CASE value.t = "JavaScriptCodeWithScope" -> TRUE
      [] value.t = "Document" ->
             \E i \in 1..Len(value.v) : Fails(value.v[i][2])
      [] value.t = "Array" -> \E i \in 1..Len(value.v) : Fails(value.v[i])
      [] OTHER -> FALSE

\* The index of the first of the values, from i on, that fails.
FirstFailing(values, i) ==
    IF Fails(values[i]) THEN i ELSE FirstFailing(values, i + 1)

\* The documents and arrays of a failing value that enclose the first
\* refused variant: those opened and not closed when the encode stops.
OpenAtFailure(value) ==
    CASE value.t = "Document" ->
             LET values == [i \in 1..Len(value.v) |-> value.v[i][2]]
             IN  1 + OpenAtFailure(values[FirstFailing(values, 1)])
      [] value.t = "Array" ->
             1 + OpenAtFailure(value.v[FirstFailing(value.v, 1)])
      [] OTHER -> 0

\* The last call was Value::serialize or serialize_document.
IsEncode == last.op \in { "serialize", "serialize_document" }

\* The value that call encoded.
Encoded ==
    IF last.op = "serialize_document" THEN DocumentValue(last.arg)
    ELSE last.arg

\* s.stack is base with extra more positions on top.
Deeper(s, base, extra) ==
    /\ Len(s.stack) = Len(base) + extra
    /\ SubSeq(s.stack, 1, Len(base)) = base

\* C24: the depth of document_positions is the number of documents and
\* arrays opened and not yet closed: start_document adds one, end_document
\* takes one off, an encode that succeeds leaves the stack as it found it,
\* and one that stops at a refused value leaves on it the containers that
\* enclose that value; no encode pops an empty stack.
C24_StackDepthIsNesting ==
    /\ IsEncode =>
         /\ ser.res # "Panic"
         /\ (ser.res = "Ok") = ~Fails(Encoded)
         /\ ser.res = "Ok" => ser.stack = last.pre.stack
         /\ ser.res # "Ok" =>
                Deeper(ser, last.pre.stack, OpenAtFailure(Encoded))
    /\ last.op = "start_document" => Deeper(ser, last.pre.stack, 1)
    /\ last.op = "end_document" /\ last.pre.stack # << >> =>
           Deeper(last.pre, ser.stack, 1)

\* A document nested in a document was encoded with one document already
\* open, and the stack is again the one position of before.
C24_Witness ==
    /\ last.op = "serialize"
    /\ last.arg.t = "Document"
    /\ \E i \in 1..Len(last.arg.v) : last.arg.v[i][2].t = "Document"
    /\ Len(last.pre.stack) = 1
    /\ ser.res = "Ok"
    /\ ser.stack = last.pre.stack
    /\ Len(ser.buf) > Len(last.pre.buf) + 5

\* The bytes of a value encoded on its own.
Bytes(value) == serialize(BsonSerializer_new, value).buf

RECURSIVE Partial(_), Members(_, _, _, _)
\* The encodings of the members before the k-th, each after its name and
\* NUL, then the name and NUL of the k-th.
Members(names, values, k, i) ==
    IF i = k THEN names[i] \o << 0 >>
    ELSE names[i] \o << 0 >> \o Bytes(values[i])
           \o Members(names, values, k, i + 1)

\* What an encode of a failing value has written when it stops at the
\* first refused variant: of each enclosing container the tag and the
\* placeholder, still zero, and the members before the failing one.
Partial(value) ==
    CASE value.t = "Document" ->
             LET names == [i \in 1..Len(value.v) |-> value.v[i][1]]
                 values == [i \in 1..Len(value.v) |-> value.v[i][2]]
                 k == FirstFailing(values, 1)
             IN  << 3, 0, 0, 0, 0 >> \o Members(names, values, k, 1)
                   \o Partial(values[k])
      [] value.t = "Array" ->
             LET names == [i \in 1..Len(value.v) |-> to_string(i - 1)]
                 k == FirstFailing(value.v, 1)
             IN  << 4, 0, 0, 0, 0 >> \o Members(names, value.v, k, 1)
                   \o Partial(value.v[k])
      [] OTHER -> << >>

\* C25: if a field value fails at any depth, the outermost call returns
\* that error, here Deprecated; nothing is written after the failing
\* value's name, neither a later field nor the length of an enclosing
\* document, and no enclosing document is closed.
C25_ErrorSurfaces ==
    IsEncode /\ Fails(Encoded) =>
        /\ ser.res = "Deprecated"
        /\ Output = Partial(Encoded)
        /\ Deeper(ser, last.pre.stack, OpenAtFailure(Encoded))

\* The refused value lay three containers deep, with fields after it at
\* every level and one before it written in full.
C25_Witness ==
    /\ last.op = "serialize"
    /\ Fails(last.arg)
    /\ OpenAtFailure(last.arg) = 3
    /\ ser.res = "Deprecated"
    /\ Len(ser.stack) = Len(last.pre.stack) + 3
    /\ Contains(Output, << 97, 0, 16, 1, 0, 0, 0 >>)
    /\ Output[Len(Output)] = 0

\* The keys the operations are given.
KeySet == { Names[i] : i \in 1..Len(Names) }

\* C27: after any insert, remove and clear, len is the number of keys that
\* contains_key holds of, is_empty holds exactly when len is 0, and get is
\* Some exactly of those keys; remove(k) returns the value k had, leaves
\* get(k) None, lowers len by one exactly when k was present and keeps every
\* other entry; clear leaves the document empty.
C27_DocumentInvariants ==
    /\ len(doc) = Cardinality({ k \in KeySet : contains_key(doc, k) })
    /\ is_empty(doc) = (len(doc) = 0)
    /\ is_empty(doc) = (doc = << >>)
    /\ \A k \in KeySet : (get(doc, k) # << >>) = contains_key(doc, k)
    /\ last.op = "remove" =>
         /\ get(doc, last.arg.key) = << >>
         /\ ~contains_key(doc, last.arg.key)
         /\ last.ret = get(last.pre, last.arg.key)
         /\ len(doc) = len(last.pre)
                         - (IF contains_key(last.pre, last.arg.key)
                            THEN 1 ELSE 0)
         /\ \A k \in KeySet \ { last.arg.key } :
                get(doc, k) = get(last.pre, k)
    /\ last.op = "clear" => is_empty(doc) /\ len(doc) = 0

\* One of two entries was removed: its value came back, the other stayed.
C27_Witness ==
    /\ last.op = "remove"
    /\ len(last.pre) = 2
    /\ last.ret # << >>
    /\ len(doc) = 1
    /\ ~contains_key(doc, last.arg.key)
    /\ \E k \in KeySet : get(doc, k) # << >> /\ get(doc, k) = get(last.pre, k)

\* The last call was one of the three refused methods, called by name or
\* by Value::serialize of the variant itself.
IsRefusedCall ==
    \/ last.op \in { "serialize_db_pointer", "serialize_symbol",
                     "serialize_javascript_code_with_scope" }
    \/ last.op = "serialize" /\ last.arg.t = "JavaScriptCodeWithScope"

\* C28: a method that returns Deprecated (serialize_db_pointer,
\* serialize_symbol, serialize_javascript_code_with_scope) has written no
\* byte, has not moved the writer and has left document_positions alone.
C28_DeprecatedWritesNothing ==
    IsRefusedCall =>
        /\ ser.res = "Deprecated"
        /\ ser.buf = last.pre.buf
        /\ ser.pos = last.pre.pos
        /\ ser.stack = last.pre.stack

\* serialize_symbol was refused with a document open and bytes written.
C28_Witness ==
    /\ last.op = "serialize_symbol"
    /\ ser.res = "Deprecated"
    /\ last.pre.stack # << >>
    /\ Len(last.pre.buf) >= 5
    /\ ser.buf = last.pre.buf
    /\ ser.pos = SizeOf(ser.buf)

\* C30: serialize_document(d) and the visitor sequence start_document, then
\* serialize_field_name and the value's method for each field in iteration
\* order, then end_document, leave the same writer bytes, writer position
\* and stack when started from the same writer and stack.
C30_VisitorEquivalence ==
    last.op = "visit_document" =>
        LET direct == serialize_document([last.pre EXCEPT !.res = "Ok"],
                                         last.arg)
        IN  /\ ser.buf = direct.buf
            /\ ser.pos = direct.pos
            /\ ser.stack = direct.stack
            /\ ser.res = direct.res

\* A document holding a document was written by the visitor sequence after
\* earlier output: a tag 0x03, the patched length, and the stack as before.
C30_Witness ==
    /\ last.op = "visit_document"
    /\ \E i \in 1..Len(last.arg) : last.arg[i][2].t = "Document"
    /\ last.pre.buf # << >>
    /\ ser.res = "Ok"
    /\ ser.stack = last.pre.stack
    /\ Output[1] = 3
    /\ Output[2] = Len(Output) - 1

\* The quotes of a JSON text that open or close a string: those after an
\* even number of backslashes.
Quotes(text) ==
    { k \in 1..Len(text) :
        /\ text[k] = 34
        /\ LET others == { j \in 1..(k - 1) : text[j] # 92 }
               before == IF others = {} THEN 0
                         ELSE CHOOSE j \in others : \A m \in others : m <= j
           IN  (k - 1 - before) % 2 = 0 }

\* Position i of the text lies outside every string, given its quotes.
Outside(quotes, i) ==
    /\ i \notin quotes
    /\ Cardinality({ k \in quotes : k < i }) % 2 = 0

Openers == { 123, 91 }

Closers == { 125, 93 }

\* The documents and arrays opened and not closed before position i.
OpenBefore(text, quotes, i) ==
    Cardinality({ k \in 1..(i - 1) :
                    text[k] \in Openers /\ Outside(quotes, k) })
      - Cardinality({ k \in 1..(i - 1) :
                        text[k] \in Closers /\ Outside(quotes, k) })

\* The position of the first character after position i that is no space,
\* past the end of the text if there is none.
AfterSpaces(text, i) ==
    LET others == { j \in (i + 1)..Len(text) : text[j] # 32 }
    IN  IF others = {} THEN Len(text) + 1
        ELSE CHOOSE j \in others : \A m \in others : j <= m

\* The text is laid out in pretty mode from nesting level base: a comma
\* or an opening bracket ends its line, so each member stands on a line of
\* its own; a line that holds a member starts with two spaces for each
\* container open around it, and the line of a closing bracket with two
\* for each container around the closed one.
PrettyLayout(text, base) ==
    LET quotes == Quotes(text)
    IN  \A i \in 1..Len(text) :
            Outside(quotes, i) =>
                /\ text[i] \in Openers \cup { 44 } =>
                       i < Len(text) /\ text[i + 1] = 10
                /\ text[i] \in Closers =>
                       \E n \in 1..(i - 1) :
                           /\ text[n] = 10
                           /\ AfterSpaces(text, n) = i
                /\ text[i] = 10 =>
                       LET j == AfterSpaces(text, i)
                           spaces == j - i - 1
                           open == base + OpenBefore(text, quotes, j)
                       IN  /\ j <= Len(text)
                           /\ \/ text[j] = 10 /\ spaces = 0
                              \/ text[j] \in Closers
                                   /\ spaces = 2 * (open - 1)
                              \/ text[j] \notin Closers \cup { 10 }
                                   /\ spaces = 2 * open

\* The text has no newline, and no space but the one after a colon and
\* those inside strings.
PlainLayout(text) ==
    LET quotes == Quotes(text)
    IN  \A i \in 1..Len(text) :
            /\ text[i] # 10
            /\ text[i] = 32 /\ Outside(quotes, i) =>
                   i > 1 /\ text[i - 1] = 58

\* C26: in pretty mode each member of a document or array is written on
\* its own line, indented by two spaces per enclosing document or array,
\* and consecutive members are separated by a comma and a newline; in
\* non-pretty mode the output has no newline and no indentation.
C26_PrettyLayout ==
    last.op = "json.serialize" /\ last.pre.indent_level >= 0 =>
        /\ json.res = "Ok"
        /\ KeptOutput
        /\ last.pre.pretty => PrettyLayout(Appended, last.pre.indent_level)
        /\ ~last.pre.pretty => PlainLayout(Appended)

\* The document {"a": 1, "x": {"y": [10, 20], ..}} was written in pretty
\* mode inside an open document: the element 10, four containers deep,
\* stands on its own line after eight spaces and before ",\n".
C26_Witness ==
    /\ last.op = "json.serialize"
    /\ last.pre.pretty
    /\ last.pre.indent_level = 1
    /\ json.res = "Ok"
    /\ Contains(Appended,
                << 91, 10, 32, 32, 32, 32, 32, 32, 32, 32, 49, 48, 44, 10,
                   32, 32, 32, 32, 32, 32, 32, 32, 50, 48, 10 >>)

\* C29: while a value is serialized, indent_level is never decremented
\* below zero (no panic of the checked build, no wrapped level), it is the
\* number of documents and arrays open, as the indentation of every line
\* written in pretty mode shows, and after the call it is what it was
\* before; start_document adds one and end_document takes one off.
C29_IndentLevelIsNesting ==
    /\ last.op = "json.serialize" /\ last.pre.indent_level >= 0 =>
         /\ json.res = "Ok"
         /\ json.indent_level = last.pre.indent_level
         /\ last.pre.pretty =>
                PrettyLayout(Appended, last.pre.indent_level)
    /\ last.op = "json.start_document" /\ last.pre.indent_level >= 0 =>
         /\ json.res = "Ok"
         /\ json.indent_level = last.pre.indent_level + 1
    /\ last.op = "json.end_document" /\ last.pre.indent_level > 0 =>
         /\ json.res = "Ok"
         /\ json.indent_level = last.pre.indent_level - 1

\* An array holding a document and an array was serialized with one
\* document open, in a build with overflow checks: the level is 1 again.
C29_Witness ==
    /\ last.op = "json.serialize"
    /\ last.arg.t = "Array"
    /\ Len(last.arg.v) = 4
    /\ last.pre.overflow_checks
    /\ last.pre.indent_level = 1
    /\ json.res = "Ok"
    /\ json.indent_level = 1
    /\ Len(json.output) > Len(last.pre.output) + 10

====
